---- MODULE Spec2Model ----
(***************************************************************************)
(* A model of the Low-rank-regularization debiasing pipeline:              *)
(*   models/resnet_simclr.py      SimCLRResNet.forward, Build_ResNet       *)
(*   training/ERMSolver.py        off_diagonal, train, save_score_idx,     *)
(*                                GeneralizedCELoss                        *)
(*   training/SimCLRSolver.py     off_diagonal, info_nce_loss,             *)
(*                                contrastive_train                        *)
(*   training/OversampleSolver.py make_pseudo_label,                       *)
(*                                train_with_oversampling                  *)
(*   data_aug/celebA.py           BiasedCelebASplit                        *)
(* Tensors are modelled by their shape and their row-major data.  Entries  *)
(* of index-structured computations are symbolic (the pair of indices an   *)
(* entry came from), floating-point values are abstracted to the classes   *)
(* that decide the NaN checks, bias scores are exact small integers, and   *)
(* files are a map from paths to contents.                                 *)
(***************************************************************************)
EXTENDS Integers, Sequences, FiniteSets, TLC

VARIABLES
    call,    \* the last application of a pure function: name, input, outcome
    train,   \* a solver's training loop: arguments, position, locals, events
    disk,    \* the files on disk: path -> content
    over,    \* the last call into OversampleSolver: arguments and outcome
    ds       \* CelebA's attributes and the BiasedCelebASplit objects built

vars == <<call, train, disk, over, ds>>

\* ---------------------------------------------------------------- bounds
\* largest matrix side handed to off_diagonal
MaxDim == 3
\* largest number of samples in a batch of logits
MaxBatch == 2
\* largest n_views and largest batch_size of the contrastive loader
MaxViews == 3
MaxBatchSize == 3
\* largest number of epochs, of batches per epoch, and largest save_every
MaxEpochs == 5
MaxBatches == 2
MaxSaveEvery == 3
\* the number of training samples, the longest lambda_list, the largest
\* bias score (in units of 1/MaxScore) and the largest nonzero lambda
NumSamples == 2
MaxLambdas == 2
MaxScore == 2
MaxLambda == 1
\* the warmup the comment of SimCLRSolver.py:257 speaks of, in epochs
WarmupEpochs == 10
\* the number of images of CelebA's train and test splits, and how many
\* (bias = 0, target = 0) samples build_blonde keeps (2000 in the source)
NumImages == 3
NumTestImages == 1
MaxSelects == 2
MaxLabels == 3
NumRaceImages == 2

\* ------------------------------------------------------ program constants
\* the number of target classes (binary attributes)
NumClasses == 2

\* ------------------------------------------------------- python outcomes
None == "None"
AssertionError == "AssertionError"
RuntimeError == "RuntimeError"
IndexError == "IndexError"
NameError == "NameError"
KeyError == "KeyError"
FileNotFoundError == "FileNotFoundError"
\* the explicit raises of celebA.py:48 and OversampleSolver.py:54, 77
RaiseAttributeError == "raise AttributeError"
ValueError_pth == "ValueError('{pth} does not exists')"
ValueError_either == "ValueError('Either pretrained SimCLR or pseudo bias label does not exist')"
\* torch.save given something that is neither a path nor a file object
TorchSaveError == "AttributeError or TypeError (torch.save)"
GCE_p == "NameError('GCE_p')"
GCE_Yg == "NameError('GCE_Yg')"

\* the outcome of a call: a returned value, or the exception that left it
Return(v) == [exc |-> None, val |-> v]
Raise(e) == [exc |-> e, val |-> <<>>]
Raised(r) == r.exc # None

\* no function has been applied yet
Idle == call.fn = None

\* ------------------------------------------------------ tensor helpers
\* a 2-d tensor: its shape and its elements in row-major order
Tensor2(r, c, d) == [rows |-> r, cols |-> c, data |-> d]

\* x.flatten()
Flatten(x) == x.data

\* s[:-1] on a 1-d tensor (empty stays empty)
DropLast(s) == IF Len(s) = 0 THEN s ELSE SubSeq(s, 1, Len(s) - 1)

\* whether s.view(r, c), both sizes given, is possible
CanView(s, r, c) == r >= 0 /\ c >= 0 /\ r * c = Len(s)

\* s.view(r, c)
View(s, r, c) == Tensor2(r, c, s)

\* whether s.view(r, -1) is possible: the free size cannot be inferred for a
\* tensor of 0 elements, nor when r does not divide the element count
CanViewInfer(s, r) == Len(s) > 0 /\ r > 0 /\ Len(s) % r = 0

\* s.view(r, -1)
ViewInfer(s, r) == Tensor2(r, Len(s) \div r, s)

\* element (i, j) of a 2-d tensor, 0-based
At(x, i, j) == x.data[i * x.cols + j + 1]

\* x[:, 1:]
DropFirstCol(x) ==
    IF x.cols = 0 THEN x
    ELSE Tensor2(x.rows, x.cols - 1,
                 [k \in 1..(x.rows * (x.cols - 1)) |->
                     At(x, (k - 1) \div (x.cols - 1), ((k - 1) % (x.cols - 1)) + 1)])

\* the n x m matrix whose entry (i, j) is the pair <<i, j>>
IndexMatrix(n, m) ==
    Tensor2(n, m, [k \in 1..(n * m) |-> <<(k - 1) \div m, (k - 1) % m>>])

\* ------------------------------------------------------- off_diagonal
\* ERMSolver.off_diagonal
ERMSolver_off_diagonal(x) ==
    IF x.rows # x.cols THEN Raise(AssertionError)
    ELSE LET n == x.rows
             flat == DropLast(Flatten(x))
         IN  IF ~CanView(flat, n - 1, n + 1) THEN Raise(RuntimeError)
             ELSE Return(Flatten(DropFirstCol(View(flat, n - 1, n + 1))))

Mut_SimCLRSolver_off_diagonal(x) ==
    IF x.rows # x.cols THEN Raise(AssertionError)
    ELSE LET n == x.rows
             flat == Flatten(x)
         IN  IF ~CanView(flat, n, n) THEN Raise(RuntimeError)
             ELSE Return(Flatten(DropFirstCol(View(flat, n, n))))

\* SimCLRSolver.off_diagonal
SimCLRSolver_off_diagonal(x) ==
    IF x.rows # x.cols THEN Raise(AssertionError)
    ELSE LET n == x.rows
             flat == DropLast(Flatten(x))
         IN  IF ~CanView(flat, n - 1, n + 1) THEN Raise(RuntimeError)
             ELSE Return(Flatten(DropFirstCol(View(flat, n - 1, n + 1))))

Call_off_diagonal ==
    /\ Idle
    /\ UNCHANGED <<train, disk, over, ds>>
    /\ \E n \in 0..MaxDim, m \in 0..MaxDim :
        call' = [fn |-> "off_diagonal",
                 in |-> IndexMatrix(n, m),
                 out |-> [ERMSolver |-> ERMSolver_off_diagonal(IndexMatrix(n, m)),
                          SimCLRSolver |-> SimCLRSolver_off_diagonal(IndexMatrix(n, m))]]

\* ------------------------------------------------ SimCLRResNet.forward
\* the assertion at the start of forward
ForwardAssert(penultimate, simclr, simsiam, vicReg) == penultimate \/ simclr

\* the features every head is applied to
PenultimateFeatures(freeze) == IF freeze THEN "features.detach" ELSE "features"

\* one item of aux: the key, the layer that produced the value, its input
Item(k, layer, input) == [key |-> k, layer |-> layer, input |-> input]

\* forward: AssertionError, or aux as the set of its items
SimCLRResNet_forward(penultimate, simclr, simsiam, vicReg, freeze) ==
    IF ~ForwardAssert(penultimate, simclr, simsiam, vicReg)
    THEN Raise(AssertionError)
    ELSE LET f == PenultimateFeatures(freeze) IN
         Return(
           (IF penultimate THEN {Item("penultimate", "penultimate", f)} ELSE {})
           \cup (IF simclr THEN {Item("simclr", "simclr_layer", f)} ELSE {})
           \cup (IF simsiam
                 THEN {Item("simsiam_prj", "simsiam_prj_layer", f),
                       Item("simsiam_pred", "simsiam_pred_layer", "simsiam_prj")}
                 ELSE {})
           \cup (IF vicReg THEN {Item("vicReg", "vicReg_layer", f)} ELSE {}))

\* the keys of an aux dictionary
Keys(aux) == {item.key : item \in aux}

Call_forward ==
    /\ Idle
    /\ UNCHANGED <<train, disk, over, ds>>
    /\ \E penultimate \in BOOLEAN, simclr \in BOOLEAN, simsiam \in BOOLEAN,
       vicReg \in BOOLEAN, freeze \in BOOLEAN :
        call' = [fn |-> "forward",
                 in |-> [penultimate |-> penultimate, simclr |-> simclr,
                         simsiam |-> simsiam, vicReg |-> vicReg, freeze |-> freeze],
                 out |-> SimCLRResNet_forward(penultimate, simclr, simsiam, vicReg, freeze)]

\* -------------------------------------------- GeneralizedCELoss.forward
\* Floating-point values by the classes that decide the checks: a logit is
\* NaN, -inf, +inf or finite; a probability is NaN, zero or positive.
Logits == {"nan", "-inf", "+inf", "fin"}

\* F.softmax(row): x - max(x), exp, divided by the sum.  A NaN poisons the
\* row; +inf gives inf - inf; a row of -inf only gives -inf - -inf.
SoftmaxRow(row) ==
    IF \/ \E k \in DOMAIN row : row[k] \in {"nan", "+inf"}
       \/ \A k \in DOMAIN row : row[k] = "-inf"
    THEN [k \in DOMAIN row |-> "nan"]
    ELSE [k \in DOMAIN row |-> IF row[k] = "-inf" THEN "zero" ELSE "pos"]

\* F.softmax(logits, dim=1)
Softmax(logits) == [i \in DOMAIN logits |-> SoftmaxRow(logits[i])]

\* np.isnan(t.mean().item()) for a 2-d tensor given as a sequence of rows:
\* the mean of no element is 0/0, the mean of elements is NaN iff one is
MeanIsNaN(t) ==
    \/ \A i \in DOMAIN t : Len(t[i]) = 0
    \/ \E i \in DOMAIN t : \E k \in DOMAIN t[i] : t[i][k] = "nan"

\* torch.gather(p, 1, targets.unsqueeze(1)): one column, p[i][targets[i]]
Gather(p, targets) == [i \in DOMAIN p |-> <<p[i][targets[i] + 1]>>]

\* (Yg.squeeze().detach() ** q) * q: squeeze drops the column, and the row
\* dimension too when it is 1 (a 0-d tensor)
LossWeight(Yg) ==
    [shape |-> IF Len(Yg) = 1 THEN <<>> ELSE <<Len(Yg)>>,
     data |-> [i \in DOMAIN Yg |-> IF Yg[i][1] = "pos" THEN "pos" ELSE Yg[i][1]]]

\* F.cross_entropy(logits, targets, reduction='none'): -log_softmax at the
\* target, +inf where the target's probability is an exact zero
CrossEntropy(logits, targets) ==
    [i \in DOMAIN logits |->
        LET pr == SoftmaxRow(logits[i])[targets[i] + 1]
        IN  IF pr = "nan" THEN "nan" ELSE IF pr = "zero" THEN "+inf" ELSE "fin"]

\* a * b on the value classes
Times(a, b) ==
    IF a = "nan" \/ b = "nan" THEN "nan"
    ELSE IF a = "+inf" /\ b = "zero" THEN "nan"
    ELSE IF a = "+inf" THEN "+inf"
    ELSE "fin"

\* ce * loss_weight with broadcasting: ce has shape (b,), the weight (b,) or ()
Broadcast(ce, w) == [i \in DOMAIN ce |-> Times(ce[i], w.data[IF w.shape = <<>> THEN 1 ELSE i])]

Mut_GeneralizedCELoss_forward(logits, targets) ==
    LET p == Softmax(logits)
        Yg == Gather(p, targets)
    IN  IF MeanIsNaN(Yg) THEN Raise(GCE_Yg)
        ELSE Return(Broadcast(CrossEntropy(logits, targets), LossWeight(Yg)))

\* GeneralizedCELoss.forward
GeneralizedCELoss_forward(logits, targets) ==
    LET p == Softmax(logits)
        Yg == Gather(p, targets)
    IN  IF MeanIsNaN(p) THEN Raise(GCE_p)
        ELSE IF MeanIsNaN(Yg) THEN Raise(GCE_Yg)
        ELSE Return(Broadcast(CrossEntropy(logits, targets), LossWeight(Yg)))

Call_GeneralizedCELoss ==
    /\ Idle
    /\ UNCHANGED <<train, disk, over, ds>>
    /\ \E b \in 0..MaxBatch :
        \E logits \in [1..b -> [1..NumClasses -> Logits]],
           targets \in [1..b -> 0..(NumClasses - 1)] :
            call' = [fn |-> "GeneralizedCELoss.forward",
                     in |-> [logits |-> logits, targets |-> targets],
                     out |-> GeneralizedCELoss_forward(logits, targets)]

\* ------------------------------------------ SimCLRSolver.info_nce_loss
\* x[mask] for a boolean mask of x's shape: the selected elements, row-major
RECURSIVE MaskedSelectFrom(_, _, _)
MaskedSelectFrom(data, mask, k) ==
    IF k > Len(data) THEN <<>>
    ELSE (IF mask[k] THEN <<data[k]>> ELSE <<>>)
         \o MaskedSelectFrom(data, mask, k + 1)

MaskedSelect(x, mask) == MaskedSelectFrom(x.data, mask.data, 1)

SameShape(x, y) == x.rows = y.rows /\ x.cols = y.cols

\* ~mask
Not(mask) == Tensor2(mask.rows, mask.cols, [k \in DOMAIN mask.data |-> ~mask.data[k]])

\* torch.eye(n, dtype=bool)
Eye(n) == Tensor2(n, n, [k \in 1..(n * n) |-> (k - 1) \div n = (k - 1) % n])

\* torch.cat([a, b], dim=1) of two tensors with equally many rows
Cat1(a, b) ==
    Tensor2(a.rows, a.cols + b.cols,
            [k \in 1..(a.rows * (a.cols + b.cols)) |->
                LET i == (k - 1) \div (a.cols + b.cols)
                    j == (k - 1) % (a.cols + b.cols)
                IN  IF j < a.cols THEN At(a, i, j) ELSE At(b, i, j - a.cols)])

\* logits / temperature, entry by entry
DivTemperature(x) ==
    Tensor2(x.rows, x.cols,
            [k \in DOMAIN x.data |-> [sim |-> x.data[k], div |-> "temperature"]])

Mut_ViewLabels(batch_size, n_views) ==
    [k \in 1..(n_views * batch_size) |-> (k - 1) \div n_views]

\* torch.cat([torch.arange(batch_size) for i in range(n_views)], dim=0)
ViewLabels(batch_size, n_views) ==
    [k \in 1..(n_views * batch_size) |-> (k - 1) % batch_size]

\* (labels.unsqueeze(0) == labels.unsqueeze(1))
SameSample(l) ==
    Tensor2(Len(l), Len(l),
            [k \in 1..(Len(l) * Len(l)) |->
                l[((k - 1) \div Len(l)) + 1] = l[((k - 1) % Len(l)) + 1]])

\* info_nce_loss on a feature matrix of `rows` rows; entry <<i, j>> of the
\* similarity matrix stands for the product of normalised features i and j
info_nce_loss(rows, batch_size, n_views) ==
    LET labels0 == SameSample(ViewLabels(batch_size, n_views))
        similarity_matrix == IndexMatrix(rows, rows)
        mask == Eye(labels0.rows)
        sel0 == MaskedSelect(labels0, Not(mask))
    IN  IF ~CanViewInfer(sel0, labels0.rows) THEN Raise(RuntimeError)
        ELSE IF ~SameShape(similarity_matrix, mask) THEN Raise(IndexError)
        ELSE
        LET labels == ViewInfer(sel0, labels0.rows)
            sel1 == MaskedSelect(similarity_matrix, Not(mask))
        IN  IF ~CanViewInfer(sel1, rows) THEN Raise(RuntimeError)
            ELSE
            LET sim == ViewInfer(sel1, rows)
                pos == MaskedSelect(sim, labels)
                neg == MaskedSelect(sim, Not(labels))
            IN  IF ~SameShape(sim, labels) THEN Raise(IndexError)
                ELSE IF ~CanViewInfer(pos, labels.rows) THEN Raise(RuntimeError)
                ELSE IF ~CanViewInfer(neg, sim.rows) THEN Raise(RuntimeError)
                ELSE
                LET logits == Cat1(ViewInfer(pos, labels.rows), ViewInfer(neg, sim.rows))
                IN  Return([logits |-> DivTemperature(logits),
                            labels |-> [k \in 1..logits.rows |-> 0]])

\* the loader hands n_views views of b samples, b <= batch_size
Call_info_nce_loss ==
    /\ Idle
    /\ UNCHANGED <<train, disk, over, ds>>
    /\ \E n_views \in 1..MaxViews, batch_size \in 1..MaxBatchSize :
        \E b \in 1..batch_size :
            call' = [fn |-> "info_nce_loss",
                     in |-> [rows |-> n_views * b, batch_size |-> batch_size,
                             n_views |-> n_views],
                     out |-> info_nce_loss(n_views * b, batch_size, n_views)]

\* -------------------------------------------------------- Build_ResNet
BaseModels == {"resnet18", "resnet50", "resnet101"}

\* Build_ResNet: a network, or the NotImplementedError class as a value
Build_ResNet(base_model) ==
    IF base_model = "resnet18" THEN Return("ResNet18")
    ELSE IF base_model = "resnet50" THEN Return("ResNet50")
    ELSE Return("NotImplementedError")

Call_Build_ResNet ==
    /\ Idle
    /\ UNCHANGED <<train, disk, over, ds>>
    /\ \E base_model \in BaseModels :
        call' = [fn |-> "Build_ResNet", in |-> base_model,
                 out |-> Build_ResNet(base_model)]

\* ------------------------------------------------------------- files
\* a path: a directory, a file name, and the number the name or the
\* directory is formatted with (-1 when there is none)
Path(dir, name, n) == [dir |-> dir, name |-> name, n |-> n]

Exists(d, path) == path \in DOMAIN d

\* d with content saved at path
Save(d, path, content) ==
    [q \in DOMAIN d \cup {path} |-> IF q = path THEN content ELSE d[q]]

\* ospj(args.score_file_template(ld), 'score_idx.pth')
ScoreFileName(ld) == Path("score_file_template", "score_idx.pth", ld)

WrongIndexFinal == Path("checkpoint_dir", "wrong_index_final.pth", -1)
DebiasIdxFile == Path("checkpoint_dir", "debias_idx.pth", -1)

\* ------------------------------------------- ERMSolver.save_score_idx
\* Samples are numbered from 1 here (index v of the source is v + 1); a
\* probability is kept in hundredths.

\* the logits the classifier can give one sample, one per class
ClassLogits == [1..NumClasses -> 0..1]

\* logits.data.max(1)[1]: the first class holding the largest logit
ArgMax(logits) ==
    CHOOSE c \in 0..(NumClasses - 1) :
        /\ \A o \in 0..(NumClasses - 1) : logits[o + 1] <= logits[c + 1]
        /\ \A o \in 0..(c - 1) : logits[o + 1] < logits[c + 1]

\* nn.Softmax()(logits)[i, label] for two classes, in hundredths
Probability(logits, label) ==
    LET d == logits[label + 1] - logits[(1 - label) + 1]
    IN  CASE d = -1 -> 27
          [] d = 0  -> 50
          [] d = 1  -> 73

Mut_BiasScore(logits, label) == Probability(logits, label)

\* bias_score = 1 - bias_prob
BiasScore(logits, label) == 100 - Probability(logits, label)

Zeros(n) == [i \in 1..n |-> 0]

\* the loop over what the loader delivers, from delivery k on
RECURSIVE Deliver(_, _, _, _)
Deliver(run, k, dataset, acc) ==
    IF k > Len(run) THEN acc
    ELSE
    LET v == run[k].idx
        label == dataset.labels[v]
        wrong == IF ArgMax(run[k].logits) # label THEN 1 ELSE 0
        debiased == IF label # dataset.bias_labels[v] THEN 1 ELSE 0
    IN  Deliver(run, k + 1, dataset,
                [score_idx  |-> [acc.score_idx EXCEPT ![v] = BiasScore(run[k].logits, label)],
                 debias_idx |-> [acc.debias_idx EXCEPT ![v] = debiased],
                 wrong_idx  |-> [acc.wrong_idx EXCEPT ![v] = wrong],
                 total_num  |-> acc.total_num + 1])

\* the file save_score_idx saves the tensor called stem to; <<>> when the
\* path is still the lambda of line 380
IdxPath(stem, data, epoch) ==
    IF data = "stl10mnist"
    THEN <<Path("checkpoint_dir", stem \o "_{bias_ratio}.pth", -1)>>
    ELSE IF epoch # <<>>
    THEN <<Path("checkpoint_dir", stem \o "{epoch}.pth", epoch[1])>>
    ELSE <<>>

\* save_score_idx: the exception that leaves it (or None), its tensors and
\* count when it is left, and the disk it leaves
save_score_idx(d, args, dataset, run, epoch) ==
    LET num_data == Len(dataset.labels)
        acc == Deliver(run, 1, dataset,
                       [score_idx |-> Zeros(num_data), debias_idx |-> Zeros(num_data),
                        wrong_idx |-> Zeros(num_data), total_num |-> 0])
        score_idx_path == IdxPath("score_idx", args.data, epoch)
        wrong_idx_path == IdxPath("wrong_idx", args.data, epoch)
        debias_idx_path == IdxPath("debias_idx", args.data, epoch)
    IN  IF ~args.finetune /\ acc.total_num # num_data
        THEN [exc |-> AssertionError, locals |-> acc, disk |-> d]
        ELSE IF score_idx_path = <<>>
        THEN [exc |-> TorchSaveError, locals |-> acc, disk |-> d]
        ELSE [exc |-> None, locals |-> acc,
              disk |-> Save(Save(Save(d, score_idx_path[1], acc.score_idx),
                                 wrong_idx_path[1], acc.wrong_idx),
                            debias_idx_path[1], acc.debias_idx)]

\* the orders in which a loader over n samples delivers them: every sample
\* at most once, possibly not all of them
LoaderOrders(n) ==
    {o \in UNION {[1..k -> 1..n] : k \in 0..n} :
        \A i, j \in DOMAIN o : i # j => o[i] # o[j]}

\* ERMSolver.save_score_idx is called
SaveScoreIdx ==
    /\ Idle
    /\ \E labels \in [1..NumSamples -> 0..(NumClasses - 1)],
          bias_labels \in [1..NumSamples -> 0..(NumClasses - 1)],
          order \in LoaderOrders(NumSamples), finetune \in BOOLEAN,
          epoch \in {<<>>, <<0>>}, data \in {"celebA", "stl10mnist"} :
          \E logits \in [DOMAIN order -> ClassLogits] :
             LET args == [finetune |-> finetune, data |-> data]
                 dataset == [labels |-> labels, bias_labels |-> bias_labels]
                 run == [k \in DOMAIN order |-> [idx |-> order[k], logits |-> logits[k]]]
                 r == save_score_idx(disk, args, dataset, run, epoch)
             IN  /\ disk' = r.disk
                 /\ call' = [fn |-> "save_score_idx",
                             in |-> [args |-> args, dataset |-> dataset,
                                     run |-> run, epoch |-> epoch],
                             out |-> [exc |-> r.exc, val |-> r.locals]]
    /\ UNCHANGED <<train, over, ds>>

\* ------------------------------------------------------ training loops
\* An event of a training run: what was done, in which epoch (epoch_counter
\* inside the loop, the number of epochs run after it), with which key (a
\* network, a token, an objective) and step number.
Event(op, epoch, key, step) == [op |-> op, epoch |-> epoch, key |-> key, step |-> step]

NoStep == [exc |-> None, flags |-> {}, keys_read |-> {}, objective |-> None,
           loss |-> None]

TrainIdle ==
    [solver |-> None, pc |-> "idle", exc |-> None,
     args |-> [epochs |-> 0, n_batches |-> 0, last_short |-> FALSE,
               save_every |-> 1, mode_CL |-> None, data |-> None,
               oversample_pth |-> None, batch_size |-> 2, n_views |-> 2],
     epoch_counter |-> -1, batch |-> 0, n_iter |-> 0, loss_bound |-> FALSE,
     step |-> NoStep, log |-> <<>>]

ModesCL == {"SimCLR", "SimSiam", "vicReg", "BarlowTwins"}
Datasets == {"celebA", "imagenet"}

\* int(0.4 * n) and int(0.2 * n): the doubles 0.4 and 0.2 lie just above 2/5
Mut_IntFourTenths(n) == (4 * n + 9) \div 10

\* and 1/5, so for small n the product truncates to the exact floor
IntFourTenths(n) == (4 * n) \div 10
IntTwoTenths(n) == (2 * n) \div 10

Mut_HeadFlags(mode_CL) ==
    IF mode_CL = "SimCLR" THEN {"simclr", "penultimate"}
    ELSE IF mode_CL = "SimSiam" THEN {"simsiam"}
    ELSE IF mode_CL = "vicReg" THEN {"vicReg"} ELSE {}

\* the flags contrastive_train sets in the encoder call, by mode_CL
HeadFlags(mode_CL) ==
    {"penultimate"} \cup
    (IF mode_CL = "SimCLR" THEN {"simclr"}
     ELSE IF mode_CL = "SimSiam" THEN {"simsiam"}
     ELSE IF mode_CL = "vicReg" THEN {"vicReg"} ELSE {})

\* the keys of aux the branch of mode_CL reads
HeadKeys(mode_CL) ==
    IF mode_CL = "SimCLR" THEN {"simclr"}
    ELSE IF mode_CL = "SimSiam" THEN {"simsiam_prj", "simsiam_pred"}
    ELSE IF mode_CL = "vicReg" THEN {"vicReg"} ELSE {}

\* what loss_nce is assigned from
Objective(mode_CL) ==
    IF mode_CL = "SimCLR" THEN "criterion(info_nce_loss)"
    ELSE IF mode_CL = "SimSiam" THEN "simsiam_loss"
    ELSE IF mode_CL = "vicReg" THEN "vicReg_loss" ELSE None

\* the with-autocast block of one contrastive step on a batch whose views
\* make `rows` feature rows
ContrastiveStep(mode_CL, rows, batch_size, n_views) ==
    IF mode_CL \notin {"SimCLR", "SimSiam", "vicReg"}
    THEN \* no branch runs: aux is unbound at features_penul = aux['penultimate']
         [NoStep EXCEPT !.exc = NameError]
    ELSE
    LET flags == HeadFlags(mode_CL)
        aux == SimCLRResNet_forward("penultimate" \in flags, "simclr" \in flags,
                                    "simsiam" \in flags, "vicReg" \in flags, FALSE)
        nce == info_nce_loss(rows, batch_size, n_views)
        sofar == [NoStep EXCEPT !.flags = flags]
    IN  IF Raised(aux) THEN [sofar EXCEPT !.exc = aux.exc]
        ELSE IF ~(HeadKeys(mode_CL) \subseteq Keys(aux.val))
        THEN [sofar EXCEPT !.exc = KeyError, !.keys_read = HeadKeys(mode_CL)]
        ELSE IF Raised(nce)
        THEN [sofar EXCEPT !.exc = nce.exc, !.keys_read = HeadKeys(mode_CL)]
        ELSE IF "penultimate" \notin Keys(aux.val)
        THEN [sofar EXCEPT !.exc = KeyError,
                           !.keys_read = HeadKeys(mode_CL) \cup {"penultimate"}]
        ELSE [sofar EXCEPT !.keys_read = HeadKeys(mode_CL) \cup {"penultimate"},
                           !.objective = Objective(mode_CL),
                           !.loss = <<Objective(mode_CL), "-",
                                      "lambda_offdiag * loss_offdiag">>]

\* the body of one ERM step up to the loss
ERMStep ==
    LET aux == SimCLRResNet_forward(TRUE, FALSE, FALSE, FALSE, FALSE)
        sofar == [NoStep EXCEPT !.flags = {"penultimate"}]
    IN  IF Raised(aux) THEN [sofar EXCEPT !.exc = aux.exc]
        ELSE IF "penultimate" \notin Keys(aux.val)
        THEN [sofar EXCEPT !.exc = KeyError, !.keys_read = {"penultimate"}]
        ELSE [sofar EXCEPT !.keys_read = {"penultimate"},
                           !.objective = "criterion(logits, labels)",
                           !.loss = <<"loss_ce", "-", "lambda_offdiag * loss_offdiag">>]

\* the number of samples of batch number k (from 1) of an epoch
BatchSamples(args, k) ==
    IF args.last_short /\ k = args.n_batches THEN args.batch_size - 1
    ELSE args.batch_size

\* the loop `for epoch_counter in range(epochs)` is entered, or skipped
EnterLoop(t) ==
    IF t.args.epochs > 0 THEN [t EXCEPT !.pc = "epoch", !.epoch_counter = 0]
    ELSE [t EXCEPT !.pc = "finish"]

\* the loop moves on after the body of epoch_counter
NextEpoch(t) ==
    IF t.epoch_counter + 1 < t.args.epochs
    THEN [t EXCEPT !.epoch_counter = @ + 1, !.batch = 0]
    ELSE [t EXCEPT !.pc = "finish", !.batch = 0]

Fail(t, e) == [t EXCEPT !.pc = "error", !.exc = e]

\* ERMSolver.train is called
ERM_Start ==
    /\ train.pc = "idle"
    /\ \E epochs \in 0..MaxEpochs, n_batches \in 0..MaxBatches,
          last_short \in BOOLEAN, data \in Datasets,
          oversample_pth \in {None, "manual.pth"} :
          /\ last_short => n_batches > 0
          /\ train' = EnterLoop([train EXCEPT
                 !.solver = "ERM",
                 !.args = [@ EXCEPT !.epochs = epochs, !.n_batches = n_batches,
                                    !.last_short = last_short, !.data = data,
                                    !.oversample_pth = oversample_pth]])
    /\ UNCHANGED <<call, disk, over, ds>>

\* one pass of the inner loop of ERMSolver.train
ERM_Batch ==
    /\ train.solver = "ERM" /\ train.pc = "epoch"
    /\ train.batch < train.args.n_batches
    /\ LET st == ERMStep
           e == train.epoch_counter
       IN  train' =
             IF st.exc # None
             THEN Fail([train EXCEPT !.step = st,
                                     !.log = @ \o <<Event("forward", e, "encoder", train.n_iter)>>],
                       st.exc)
             ELSE [train EXCEPT
                     !.step = st, !.batch = @ + 1, !.n_iter = @ + 1,
                     !.loss_bound = TRUE,
                     !.log = @ \o <<Event("forward", e, "encoder", train.n_iter),
                                    Event("loss", e, st.objective, train.n_iter),
                                    Event("optimizer.step", e, "classifier", train.n_iter),
                                    Event("optimizer.step", e, "encoder", train.n_iter)>>]
    /\ UNCHANGED <<call, disk, over, ds>>

\* the dataset of a training run and what get_original_loader delivers of it
\* with the classifier's logits, at the end of every epoch
TrainSet == [labels |-> <<0, 1>>, bias_labels |-> <<0, 0>>]
TrainRun == <<[idx |-> 1, logits |-> <<1, 0>>], [idx |-> 2, logits |-> <<1, 0>>]>>

\* the rest of the body of an epoch of ERMSolver.train
ERM_EpochEnd ==
    /\ train.solver = "ERM" /\ train.pc = "epoch"
    /\ train.batch = train.args.n_batches
    /\ LET e == train.epoch_counter
           validated == [train EXCEPT
               !.log = @ \o <<Event("validation", e, train.args.data, train.n_iter + 1)>>]
           scored == IF train.args.oversample_pth = None
                     THEN [validated EXCEPT
                             !.log = @ \o <<Event("save_score_idx", e, "score_idx", e)>>]
                     ELSE validated
           saved == save_score_idx(disk, [finetune |-> FALSE, data |-> train.args.data],
                                   TrainSet, TrainRun, <<e>>)
       IN  IF ~train.loss_bound
           THEN train' = Fail(train, NameError)   \* msg formats loss and top1
                /\ disk' = disk
           ELSE IF train.args.oversample_pth = None /\ saved.exc # None
           THEN train' = Fail(scored, saved.exc) /\ disk' = saved.disk
           ELSE /\ train' = NextEpoch(scored)
                /\ disk' = IF train.args.oversample_pth = None THEN saved.disk ELSE disk
    /\ UNCHANGED <<call, over, ds>>

\* the checkpoint ERMSolver.evaluate asks for:
\* self._load_checkpoint(self.args.ERM_epochs, 'biased_ERM')
EvaluateKey(ERM_epochs) == [step |-> ERM_epochs, token |-> "biased_ERM"]

\* after the loop of ERMSolver.train
ERM_Finish ==
    /\ train.solver = "ERM" /\ train.pc = "finish"
    /\ train' = IF train.epoch_counter < 0
                THEN Fail(train, NameError)   \* epoch_counter was never bound
                ELSE [train EXCEPT
                        !.pc = "done",
                        !.log = @ \o <<Event("checkpoint", train.epoch_counter + 1,
                                             "biased_ERM", train.epoch_counter + 1)>>]
    /\ UNCHANGED <<call, disk, over, ds>>

\* SimCLRSolver.contrastive_train is called
SimCLR_Start ==
    /\ train.pc = "idle"
    /\ \E epochs \in 0..MaxEpochs, n_batches \in 0..MaxBatches,
          last_short \in BOOLEAN, data \in Datasets,
          save_every \in 1..MaxSaveEvery, mode_CL \in ModesCL :
          /\ last_short => n_batches > 0
          /\ train' = EnterLoop([train EXCEPT
                 !.solver = "SimCLR",
                 !.args = [@ EXCEPT !.epochs = epochs, !.n_batches = n_batches,
                                    !.last_short = last_short, !.data = data,
                                    !.save_every = save_every, !.mode_CL = mode_CL]])
    /\ UNCHANGED <<call, disk, over, ds>>

\* one pass of the inner loop of contrastive_train
SimCLR_Batch ==
    /\ train.solver = "SimCLR" /\ train.pc = "epoch"
    /\ train.batch < train.args.n_batches
    /\ LET a == train.args
           st == ContrastiveStep(a.mode_CL,
                                 a.n_views * BatchSamples(a, train.batch + 1),
                                 a.batch_size, a.n_views)
           e == train.epoch_counter
           called == IF st.flags = {} THEN <<>>
                     ELSE <<Event("forward", e, "encoder", train.n_iter)>>
       IN  train' =
             IF st.exc # None
             THEN Fail([train EXCEPT !.step = st, !.log = @ \o called], st.exc)
             ELSE [train EXCEPT
                     !.step = st, !.batch = @ + 1, !.n_iter = @ + 1,
                     !.loss_bound = TRUE,
                     !.log = @ \o called
                              \o <<Event("loss", e, st.objective, train.n_iter),
                                   Event("optimizer.step", e, "encoder", train.n_iter)>>]
    /\ UNCHANGED <<call, disk, over, ds>>

\* whether the scheduler is stepped at the end of epoch_counter
StepsScheduler(args, epoch_counter) ==
    IF args.data # "imagenet"
    THEN epoch_counter >= IntFourTenths(args.epochs)
    ELSE epoch_counter >= IntTwoTenths(args.epochs)

Mut_SavesCheckpoint(args, epoch_counter) == epoch_counter % args.save_every = 0

\* whether a checkpoint is saved at the end of epoch_counter
SavesCheckpoint(args, epoch_counter) == (epoch_counter + 1) % args.save_every = 0

\* the rest of the body of an epoch of contrastive_train
SimCLR_EpochEnd ==
    /\ train.solver = "SimCLR" /\ train.pc = "epoch"
    /\ train.batch = train.args.n_batches
    /\ LET e == train.epoch_counter
           stepped == IF StepsScheduler(train.args, e)
                      THEN [train EXCEPT
                              !.log = @ \o <<Event("scheduler.step", e, "encoder", e)>>]
                      ELSE train
           saved == IF SavesCheckpoint(train.args, e)
                    THEN [stepped EXCEPT
                            !.log = @ \o <<Event("checkpoint", e, "biased_simclr", e + 1)>>]
                    ELSE stepped
       IN  train' = IF ~train.loss_bound
                    THEN Fail(stepped, NameError)   \* msg formats loss and top1
                    ELSE NextEpoch(saved)
    /\ UNCHANGED <<call, disk, over, ds>>

\* after the loop of contrastive_train
SimCLR_Finish ==
    /\ train.solver = "SimCLR" /\ train.pc = "finish"
    /\ train' = IF train.epoch_counter < 0
                THEN Fail(train, NameError)   \* epoch_counter was never bound
                ELSE [train EXCEPT
                        !.pc = "done",
                        !.log = @ \o <<Event("checkpoint", train.epoch_counter + 1,
                                             "biased_simclr", train.epoch_counter + 1)>>]
    /\ UNCHANGED <<call, disk, over, ds>>

\* --------------------------------------- OversampleSolver.make_pseudo_label
\* elementwise a + b of two score vectors
AddVec(a, b) == [i \in DOMAIN a |-> a[i] + b[i]]

\* the loop over lambda_list from position k on: the file of every nonzero
\* lambda is loaded and added
RECURSIVE AddScores(_, _, _, _)
AddScores(d, lambda_list, k, score) ==
    IF k > Len(lambda_list) THEN Return(score)
    ELSE IF lambda_list[k] = 0 THEN AddScores(d, lambda_list, k + 1, score)
    ELSE IF ~Exists(d, ScoreFileName(lambda_list[k])) THEN Raise(FileNotFoundError)
    ELSE AddScores(d, lambda_list, k + 1,
                   AddVec(score, d[ScoreFileName(lambda_list[k])]))

\* score /= divisor; (score > cutoff).float(), in exact arithmetic
Threshold(score, divisor, cutoff) ==
    [i \in DOMAIN score |-> IF score[i] > cutoff * divisor THEN 1 ELSE 0]

\* make_pseudo_label: the exception that leaves it (or None), the pseudo
\* label it computed, and the disk it leaves
make_pseudo_label(d, args) ==
    IF ~Exists(d, ScoreFileName(0))
    THEN [exc |-> FileNotFoundError, pseudo_label |-> <<>>, disk |-> d]
    ELSE
    LET sum == AddScores(d, args.lambda_list, 1, d[ScoreFileName(0)])
    IN  IF Raised(sum)
        THEN [exc |-> sum.exc, pseudo_label |-> <<>>, disk |-> d]
        ELSE
        LET pseudo_label == Threshold(sum.val, Len(args.lambda_list), args.cutoff)
            saved == Save(d, WrongIndexFinal, pseudo_label)
        IN  IF args.data # "imagenet" /\ ~Exists(saved, DebiasIdxFile)
            THEN [exc |-> FileNotFoundError, pseudo_label |-> pseudo_label,
                  disk |-> saved]
            ELSE [exc |-> None, pseudo_label |-> pseudo_label, disk |-> saved]

OverIdle ==
    [fn |-> None, exc |-> None,
     args |-> [lambda_list |-> <<>>, cutoff |-> 0, data |-> None,
               oversample_pth |-> <<>>, finetune |-> FALSE, lambda_upweight |-> 1],
     ckpt_loads |-> TRUE, made |-> FALSE,
     pseudo_label |-> <<>>, upweight |-> <<>>, token |-> None]

\* the lambda_lists a run may be given
LambdaLists == UNION {[1..n -> 0..MaxLambda] : n \in 1..MaxLambdas}

\* OversampleSolver.make_pseudo_label is called
MakePseudoLabel ==
    /\ \E lambda_list \in LambdaLists, cutoff \in 0..(MaxScore - 1), data \in Datasets :
          LET args == [OverIdle.args EXCEPT !.lambda_list = lambda_list,
                                            !.cutoff = cutoff, !.data = data]
              r == make_pseudo_label(disk, args)
          IN  /\ disk' = r.disk
              /\ over' = [OverIdle EXCEPT !.fn = "make_pseudo_label", !.exc = r.exc,
                                          !.args = args, !.made = TRUE,
                                          !.pseudo_label = r.pseudo_label]
    /\ UNCHANGED <<call, train, ds>>

\* ---------------------------- OversampleSolver.train_with_oversampling
\* a manually made pseudo-label file, args.oversample_pth
ManualPth == Path("oversample_pth", "manual.pth", -1)

\* ospj(checkpoint_dir, f'subset_indices_{finetune_ratio}.npy')
SubsetIndices == Path("checkpoint_dir", "subset_indices_{finetune_ratio}.npy", -1)

Mut_PthMissing(d, args) ==
    args.oversample_pth # <<>> /\ Exists(d, args.oversample_pth[1])

\* lines 51-53: oversample_pth is set and names no file
PthMissing(d, args) ==
    args.oversample_pth # <<>> /\ ~Exists(d, args.oversample_pth[1])

Mut_MakesLabel(d, args) == args.oversample_pth = <<>>

\* lines 51-60: make_pseudo_label is called: oversample_pth is unset and
\* checkpoint_dir holds no 'wrong_index_final.pth'
MakesLabel(d, args) ==
    args.oversample_pth = <<>> /\ ~Exists(d, WrongIndexFinal)

Mut_LabelPath(args) == WrongIndexFinal

\* lines 52, 63: pth, the file the pseudo label is loaded from
LabelPath(args) ==
    IF args.oversample_pth # <<>> THEN args.oversample_pth[1] ELSE WrongIndexFinal

Mut_TryPasses(d, pth, ckpt_loads) == Exists(d, pth)

\* lines 65-77: the body of the try runs through: the checkpoint loads and
\* the assertion on pth holds
TryPasses(d, pth, ckpt_loads) == ckpt_loads /\ Exists(d, pth)

\* lines 80-89: ones, zero outside the finetuning subset, lambda_upweight
\* wherever the pseudo label is 1 (samples are numbered from 1)
Upweight(wrong_label, args, indices) ==
    [i \in DOMAIN wrong_label |->
        IF wrong_label[i] = 1 THEN args.lambda_upweight
        ELSE IF args.finetune /\ i \notin indices THEN 0
        ELSE 1]

Mut_LoadedKey(simclr_epochs) == [step |-> simclr_epochs + 1, token |-> "biased_simclr"]

\* the checkpoint line 72 asks for:
\* self._load_checkpoint(self.args.simclr_epochs, 'biased_simclr')
LoadedKey(simclr_epochs) == [step |-> simclr_epochs, token |-> "biased_simclr"]

\* the keys under which a training run with the given log saved a checkpoint
SavedKeys(log) ==
    {[step |-> log[i].step, token |-> log[i].key] :
        i \in {k \in DOMAIN log : log[k].op = "checkpoint"}}

\* CheckpointIO.load(step, token) finds what CheckpointIO.save(step, token) left
CheckpointLookup(log, key) == key \in SavedKeys(log)

\* train_with_oversampling: the exception that leaves it (or None), whether
\* it made the pseudo label, the weights and the token it hands to
\* linear_evaluation, and the disk it leaves; ckpt_loads says whether
\* _load_checkpoint(simclr_epochs, 'biased_simclr') returns
train_with_oversampling(d, args, ckpt_loads) ==
    LET out == [exc |-> None, made |-> FALSE, pseudo_label |-> <<>>,
                upweight |-> <<>>, token |-> None, disk |-> d]
        manual == args.oversample_pth # <<>>
        makes == MakesLabel(d, args)
        label == make_pseudo_label(d, args)
        d1 == IF makes THEN label.disk ELSE d
        pth == LabelPath(args)
        sofar == IF makes
                 THEN [out EXCEPT !.made = TRUE, !.pseudo_label = label.pseudo_label,
                                  !.disk = d1]
                 ELSE out
    IN  IF PthMissing(d, args) THEN [out EXCEPT !.exc = ValueError_pth]
        ELSE IF makes /\ label.exc # None THEN [sofar EXCEPT !.exc = label.exc]
        ELSE IF ~TryPasses(d1, pth, ckpt_loads) THEN [sofar EXCEPT !.exc = ValueError_either]
        ELSE IF args.finetune /\ ~Exists(d1, SubsetIndices)
        THEN [sofar EXCEPT !.exc = FileNotFoundError]
        ELSE [sofar EXCEPT
                !.upweight = Upweight(d1[pth], args,
                                      IF args.finetune THEN d1[SubsetIndices] ELSE {}),
                !.token = IF args.finetune THEN "debiased_finetune" ELSE "debiased_linear"]

\* OversampleSolver.train_with_oversampling is called, with arguments drawn
\* from the given sets (upweights: the values of lambda_upweight)
Oversampling(lambda_lists, cutoffs, datasets, upweights) ==
    /\ \E lambda_list \in lambda_lists, cutoff \in cutoffs, data \in datasets,
          oversample_pth \in {<<>>, <<ManualPth>>}, finetune \in BOOLEAN,
          lambda_upweight \in upweights, ckpt_loads \in BOOLEAN :
          LET args == [lambda_list |-> lambda_list, cutoff |-> cutoff, data |-> data,
                       oversample_pth |-> oversample_pth, finetune |-> finetune,
                       lambda_upweight |-> lambda_upweight]
              r == train_with_oversampling(disk, args, ckpt_loads)
          IN  /\ disk' = r.disk
              /\ over' = [fn |-> "train_with_oversampling", exc |-> r.exc, args |-> args,
                          ckpt_loads |-> ckpt_loads, made |-> r.made,
                          pseudo_label |-> r.pseudo_label, upweight |-> r.upweight,
                          token |-> r.token]
    /\ UNCHANGED <<call, train, ds>>

\* OversampleSolver.train_with_oversampling is called
TrainWithOversampling ==
    Oversampling(LambdaLists, 0..(MaxScore - 1), Datasets, {2, 5})

\* train_with_oversampling is called again in one experiment, lambda_list
\* and cutoff changing from call to call
RepeatedOversampling ==
    Oversampling({<<0>>, <<0, 1>>}, 0..1, {"celebA"}, {2})

\* the score files ERM runs left, one per lambda, and the debias labels
ScoreDisks ==
    {[q \in {ScoreFileName(ld) : ld \in 0..MaxLambda} \cup {DebiasIdxFile} |->
         IF q = DebiasIdxFile THEN debias ELSE files[q.n]] :
       files \in [0..MaxLambda -> [1..NumSamples -> 0..MaxScore]],
       debias \in {[i \in 1..NumSamples |-> 0]}}

NoDisk == [q \in {} |-> 0]

\* d without the files outside keep
Restrict(d, keep) == [q \in DOMAIN d \cap keep |-> d[q]]

\* a disk holding every file train_with_oversampling can read
FullDisk ==
    [q \in {ScoreFileName(ld) : ld \in 0..MaxLambda}
            \cup {DebiasIdxFile, WrongIndexFinal, ManualPth, SubsetIndices} |->
        IF q = SubsetIndices THEN {1}
        ELSE IF q = DebiasIdxFile THEN [i \in 1..NumSamples |-> 0]
        ELSE IF q = ManualPth THEN [i \in 1..NumSamples |-> IF i = 1 THEN 1 ELSE 0]
        ELSE [i \in 1..NumSamples |-> 1]]

\* the disks on which any of these files may be missing
SomeDisks ==
    {Restrict(FullDisk, scores \cup others) :
        scores \in {{}, {ScoreFileName(ld) : ld \in 0..MaxLambda} \cup {DebiasIdxFile}},
        others \in SUBSET {WrongIndexFinal, ManualPth, SubsetIndices}}

\* ------------------------------------------------- BiasedCelebASplit
\* Image indices are those of the source (from 0); position p of a tensor
\* is element p + 1 of its sequence.
Splits == {"train", "valid", "test"}
TargetAttrs == {"blonde", "makeup", "smiling"}

Range(x) == {x[i] : i \in DOMAIN x}

\* torch.arange(n)
Arange(n) == [i \in 1..n |-> i - 1]

\* Path(root) / 'pickles' / 'blonde' / 'indices.pkl'
BlondeIndices == Path("root/pickles/blonde", "indices.pkl", -1)

\* Path(f'clusters/celeba_rand_indices_{target_attr}.pkl')
PermFile(target_attr) ==
    Path("clusters", "celeba_rand_indices_" \o target_attr \o ".pkl", -1)

\* torch.randperm(n): every permutation of 0..n-1
RandPerm(n) == {x \in [1..n -> 0..(n - 1)] : \A i, j \in 1..n : i # j => x[i] # x[j]}

\* np.random.shuffle(x) on a torch tensor: numpy swaps with
\* x[i], x[j] = x[j], x[i] for i = n-1 .. 1 and a random j <= i; x[i] and
\* x[j] are views of x, so the swap only copies x[j] into x[i]
Shuffles(x) ==
    {[i \in DOMAIN x |-> x[j[i]]] :
        j \in {f \in [DOMAIN x -> DOMAIN x] : \A i \in DOMAIN x : f[i] <= i}}

\* x[:n]
Take(x, n) == SubSeq(x, 1, IF n < Len(x) THEN n ELSE Len(x))

\* x[n:]
Drop(x, n) == SubSeq(x, (IF n < Len(x) THEN n ELSE Len(x)) + 1, Len(x))

\* the index tensors build_blonde can return for CelebA attributes attr
build_blonde(attr) ==
    LET unbiased(v) == attr[v + 1].bias = 0 /\ attr[v + 1].target = 0
        biased(v) == ~unbiased(v)
        selects == SelectSeq(Arange(Len(attr)), unbiased)
        non_selects == SelectSeq(Arange(Len(attr)), biased)
    IN  {Take(shuffled, MaxSelects) \o non_selects : shuffled \in Shuffles(selects)}

\* int(0.8 * num_total)
NumTrain(num_total) == (4 * num_total) \div 5

\* the index tensors self.indices can start from (lines 26-48), with the disk
\* each leaves
BaseIndices(d, attr, split, target_attr) ==
    IF target_attr = "blonde" /\ split \in {"train", "valid"}
    THEN IF Exists(d, BlondeIndices)
         THEN {[indices |-> d[BlondeIndices], disk |-> d]}
         ELSE {[indices |-> built, disk |-> Save(d, BlondeIndices, built)] :
                  built \in build_blonde(attr)}
    ELSE {[indices |-> Arange(IF split = "test" THEN NumTestImages ELSE Len(attr)),
           disk |-> d]}

\* the permutations lines 51-56 can use for n base indices, with the disk
\* each leaves
RandIndices(d, target_attr, n) ==
    IF ~Exists(d, PermFile(target_attr))
    THEN {[rand_indices |-> x, disk |-> Save(d, PermFile(target_attr), x)] :
             x \in RandPerm(n)}
    ELSE {[rand_indices |-> d[PermFile(target_attr)], disk |-> d]}

\* BiasedCelebASplit.__init__: the outcomes it can have: the exception that
\* leaves it (or None), self.indices and the disk it leaves
BiasedCelebASplit_init(d, attr, split, target_attr) ==
    IF target_attr \notin {"blonde", "makeup"}
    THEN {[exc |-> RaiseAttributeError, indices |-> <<>>, disk |-> d]}
    ELSE IF split \notin {"train", "valid"}
    THEN {[exc |-> None, indices |-> b.indices, disk |-> b.disk] :
             b \in BaseIndices(d, attr, split, target_attr)}
    ELSE UNION {
           {LET num_total == Len(r.rand_indices)
                num_train == NumTrain(num_total)
                indices == IF split = "train" THEN Take(r.rand_indices, num_train)
                           ELSE Drop(r.rand_indices, num_train)
            IN  IF \E k \in DOMAIN indices : indices[k] >= Len(b.indices)
                THEN [exc |-> IndexError, indices |-> <<>>, disk |-> r.disk]
                ELSE [exc |-> None,
                      indices |-> [k \in DOMAIN indices |-> b.indices[indices[k] + 1]],
                      disk |-> r.disk] :
              r \in RandIndices(b.disk, target_attr, Len(b.indices))} :
           b \in BaseIndices(d, attr, split, target_attr)}

\* two processes construct BiasedCelebASplit at the same time, one for each
\* of these splits
Procs == {"train", "valid"}

\* the locals of one process inside BiasedCelebASplit.__init__
ProcIdle == [pc |-> "idle", exc |-> None, base |-> <<>>, rand_indices |-> <<>>,
             indices |-> <<>>]

\* nothing built yet from CelebA attributes attr
DsIdle(attr) ==
    [attr |-> attr, target_attr |-> None, built |-> [sp \in Splits |-> {}],
     last |-> [split |-> None, exc |-> None, indices |-> <<>>],
     procs |-> [sp \in Procs |-> ProcIdle]]

\* BiasedCelebASplit(root, split, transform, target_attr) is constructed;
\* a run keeps to one target_attr
Construct ==
    /\ \E split \in Splits, target_attr \in TargetAttrs :
          /\ ds.target_attr \in {None, target_attr}
          /\ \E r \in BiasedCelebASplit_init(disk, ds.attr, split, target_attr) :
                /\ disk' = r.disk
                /\ ds' = [ds EXCEPT
                            !.target_attr = target_attr,
                            !.built[split] = IF r.exc = None THEN @ \cup {r.indices} ELSE @,
                            !.last = [split |-> split, exc |-> r.exc, indices |-> r.indices]]
    /\ UNCHANGED <<call, train, over>>

\* ------------------------------------------------ concurrent construction
\* BiasedCelebASplit.__init__ step by step, one step per access to the file
\* system; a pickle.dump is taken as one step.

\* Path(root) / 'pickles' / 'blonde'
BlondeDir == Path("root/pickles", "blonde", -1)

\* lines 26-45: up to the first access to the file system
Race_Begin ==
    /\ \E p \in Procs :
          /\ ds.procs[p].pc = "start"
          /\ IF ds.target_attr = "blonde" THEN ds' = [ds EXCEPT !.procs[p].pc = "is_dir"]
             ELSE ds' = [ds EXCEPT !.procs[p].pc = "exists",
                                   !.procs[p].base = Arange(Len(ds.attr))]
    /\ UNCHANGED <<call, train, over, disk>>

\* line 30: if save_path.is_dir()
Race_IsDir ==
    /\ \E p \in Procs :
          /\ ds.procs[p].pc = "is_dir"
          /\ ds' = [ds EXCEPT !.procs[p].pc =
                          IF Exists(disk, BlondeDir) THEN "load_base" ELSE "build_blonde"]
    /\ UNCHANGED <<call, train, over, disk>>

\* line 32: pickle.load(open(save_path / 'indices.pkl', 'rb'))
Race_LoadBase ==
    /\ \E p \in Procs :
          /\ ds.procs[p].pc = "load_base"
          /\ IF Exists(disk, BlondeIndices)
             THEN ds' = [ds EXCEPT !.procs[p].pc = "exists",
                                   !.procs[p].base = disk[BlondeIndices]]
             ELSE ds' = [ds EXCEPT !.procs[p].pc = "failed",
                                   !.procs[p].exc = FileNotFoundError]
    /\ UNCHANGED <<call, train, over, disk>>

\* line 34: self.indices = self.build_blonde()
Race_BuildBlonde ==
    /\ \E p \in Procs :
          /\ ds.procs[p].pc = "build_blonde"
          /\ \E built \in build_blonde(ds.attr) :
                ds' = [ds EXCEPT !.procs[p].pc = "mkdir", !.procs[p].base = built]
    /\ UNCHANGED <<call, train, over, disk>>

\* line 36: save_path.mkdir(parents=True, exist_ok=True)
Race_Mkdir ==
    /\ \E p \in Procs :
          /\ ds.procs[p].pc = "mkdir"
          /\ disk' = Save(disk, BlondeDir, <<>>)
          /\ ds' = [ds EXCEPT !.procs[p].pc = "dump_base"]
    /\ UNCHANGED <<call, train, over>>

\* line 37: pickle.dump(self.indices, open(save_path / 'indices.pkl', 'wb'))
Race_DumpBase ==
    /\ \E p \in Procs :
          /\ ds.procs[p].pc = "dump_base"
          /\ disk' = Save(disk, BlondeIndices, ds.procs[p].base)
          /\ ds' = [ds EXCEPT !.procs[p].pc = "exists"]
    /\ UNCHANGED <<call, train, over>>

\* line 52: if not save_path.exists()
Race_Exists ==
    /\ \E p \in Procs :
          /\ ds.procs[p].pc = "exists"
          /\ ds' = [ds EXCEPT !.procs[p].pc =
                          IF Exists(disk, PermFile(ds.target_attr)) THEN "load_perm"
                          ELSE "randperm"]
    /\ UNCHANGED <<call, train, over, disk>>

\* line 53: rand_indices = torch.randperm(len(self.indices))
Race_RandPerm ==
    /\ \E p \in Procs :
          /\ ds.procs[p].pc = "randperm"
          /\ \E x \in RandPerm(Len(ds.procs[p].base)) :
                ds' = [ds EXCEPT !.procs[p].pc = "dump_perm",
                                 !.procs[p].rand_indices = x]
    /\ UNCHANGED <<call, train, over, disk>>

\* line 54: pickle.dump(rand_indices, open(save_path, 'wb'))
Race_DumpPerm ==
    /\ \E p \in Procs :
          /\ ds.procs[p].pc = "dump_perm"
          /\ disk' = Save(disk, PermFile(ds.target_attr), ds.procs[p].rand_indices)
          /\ ds' = [ds EXCEPT !.procs[p].pc = "cut"]
    /\ UNCHANGED <<call, train, over>>

\* line 56: rand_indices = pickle.load(open(save_path, 'rb'))
Race_LoadPerm ==
    /\ \E p \in Procs :
          /\ ds.procs[p].pc = "load_perm"
          /\ ds' = [ds EXCEPT !.procs[p].pc = "cut",
                              !.procs[p].rand_indices = disk[PermFile(ds.target_attr)]]
    /\ UNCHANGED <<call, train, over, disk>>

\* lines 58-67: the process cuts its split out of its rand_indices
Race_Cut ==
    /\ \E p \in Procs :
          /\ ds.procs[p].pc = "cut"
          /\ LET me == ds.procs[p]
                 num_train == NumTrain(Len(me.rand_indices))
                 indices == IF p = "train" THEN Take(me.rand_indices, num_train)
                            ELSE Drop(me.rand_indices, num_train)
             IN  IF \E k \in DOMAIN indices : indices[k] >= Len(me.base)
                 THEN ds' = [ds EXCEPT !.procs[p].pc = "failed",
                                       !.procs[p].exc = IndexError]
                 ELSE ds' = [ds EXCEPT
                               !.procs[p].pc = "done",
                               !.procs[p].indices =
                                   [k \in DOMAIN indices |-> me.base[indices[k] + 1]]]
    /\ UNCHANGED <<call, train, over, disk>>

\* the attribute tables of CelebA's train split: bias and target of every image
Tables == [1..NumImages -> [bias : {0, 1}, target : {0, 1}]]

\* ------------------------------------------------------- specification
\* torch.sum of a 0/1 vector
SumOf(v) == Cardinality({i \in DOMAIN v : v[i] = 1})

\* a / b on tensors: the quotient is kept as the pair, since torch divides
\* by zero without raising (0 / 0 is nan)
TrueDivide(a, b) == [num |-> a, den |-> b]

Mut_Conflicting(data, debias_label) == debias_label

\* if self.args.data == 'celebA': debias_label = 1 - debias_label
Conflicting(data, debias_label) ==
    IF data = "celebA" THEN [i \in DOMAIN debias_label |-> 1 - debias_label[i]]
    ELSE debias_label

\* ERMSolver.pseudo_label_precision_recall: the two values it logs
pseudo_label_precision_recall(args, wrong_label, debias_label) ==
    LET debias == Conflicting(args.data, debias_label)
        both == Cardinality({i \in DOMAIN wrong_label :
                                wrong_label[i] = 1 /\ debias[i] = 1})
    IN  [spur_precision |-> TrueDivide(both, SumOf(wrong_label)),
         spur_recall |-> TrueDivide(both, SumOf(debias))]

Call_pseudo_label_precision_recall ==
    /\ Idle
    /\ UNCHANGED <<train, disk, over, ds>>
    /\ \E n \in 0..MaxLabels, data \in Datasets :
        \E wrong_label \in [1..n -> 0..1], debias_label \in [1..n -> 0..1] :
            call' = [fn |-> "pseudo_label_precision_recall",
                     in |-> [data |-> data, wrong_label |-> wrong_label,
                             debias_label |-> debias_label],
                     out |-> Return(pseudo_label_precision_recall(
                                 [data |-> data], wrong_label, debias_label))]

\* ERMSolver.__init__, lines 61-75: the sampling weights the train loader is
\* rebuilt with (<<upweight>>), or <<>> when the plain loader is kept;
\* wrong_label is what torch.load(pth) gives and indices what np.load gives
ERMSolver_init_upweight(args, wrong_label, indices) ==
    IF args.lambda_upweight # 1 /\ args.oversample_pth # <<>>
    THEN <<Upweight(wrong_label, args, indices)>>
    ELSE <<>>

Call_ERMSolver_init ==
    /\ Idle
    /\ UNCHANGED <<train, disk, over, ds>>
    /\ \E wrong_label \in [1..NumSamples -> 0..1], indices \in SUBSET (1..NumSamples),
          finetune \in BOOLEAN, lambda_upweight \in {1, 2},
          oversample_pth \in {<<>>, <<ManualPth>>} :
            LET args == [finetune |-> finetune, lambda_upweight |-> lambda_upweight,
                         oversample_pth |-> oversample_pth]
            IN  call' = [fn |-> "ERMSolver.__init__",
                         in |-> [args |-> args, wrong_label |-> wrong_label,
                                 indices |-> indices],
                         out |-> Return(ERMSolver_init_upweight(args, wrong_label, indices))]

CallIdle == [fn |-> None, in |-> None, out |-> Return(None)]

InitFn == call = CallIdle /\ train = TrainIdle /\ disk = NoDisk /\ over = OverIdle
          /\ ds = DsIdle(<<>>)

NextFn ==
    \/ Call_off_diagonal
    \/ Call_forward
    \/ Call_GeneralizedCELoss
    \/ Call_info_nce_loss
    \/ Call_Build_ResNet
    \/ Call_pseudo_label_precision_recall
    \/ Call_ERMSolver_init

SpecFn == InitFn /\ [][NextFn]_vars

InitTrain == call = CallIdle /\ train = TrainIdle /\ disk = NoDisk /\ over = OverIdle
          /\ ds = DsIdle(<<>>)

NextTrain ==
    \/ ERM_Start
    \/ ERM_Batch
    \/ ERM_EpochEnd
    \/ ERM_Finish
    \/ SimCLR_Start
    \/ SimCLR_Batch
    \/ SimCLR_EpochEnd
    \/ SimCLR_Finish

SpecTrain == InitTrain /\ [][NextTrain]_vars

InitPseudo ==
    /\ call = CallIdle /\ train = TrainIdle /\ over = OverIdle
    /\ ds = DsIdle(<<>>)
    /\ disk \in ScoreDisks

NextPseudo == MakePseudoLabel

SpecPseudo == InitPseudo /\ [][NextPseudo]_vars

NextScore == SaveScoreIdx

SpecScore == InitFn /\ [][NextScore]_vars

\* two images of CelebA, one of them with bias = 0 and target = 0
TwoImages == <<[bias |-> 0, target |-> 0], [bias |-> 1, target |-> 1]>>

\* nothing has been called yet
Quiet == call.fn = None /\ over.fn = None /\ ds.last.split = None

InitErr ==
    /\ call = CallIdle /\ train = TrainIdle /\ over = OverIdle
    /\ ds = DsIdle(TwoImages)
    /\ disk \in SomeDisks

\* one operation on one state of the disk
NextErr ==
    \/ Quiet /\ Call_GeneralizedCELoss
    \/ Quiet /\ Call_Build_ResNet
    \/ Quiet /\ Construct
    \/ Quiet /\ TrainWithOversampling

SpecErr == InitErr /\ [][NextErr]_vars

\* ERM training, then the pseudo label made from what it left on disk
NextPipe ==
    \/ ERM_Start
    \/ ERM_Batch
    \/ ERM_EpochEnd
    \/ ERM_Finish
    \/ train.pc = "done" /\ MakePseudoLabel

SpecPipe == InitTrain /\ [][NextPipe]_vars

InitOver ==
    /\ call = CallIdle /\ train = TrainIdle /\ over = OverIdle
    /\ ds = DsIdle(<<>>)
    /\ disk \in SomeDisks

NextOver == RepeatedOversampling

SpecOver == InitOver /\ [][NextOver]_vars

InitSplit ==
    /\ call = CallIdle /\ train = TrainIdle /\ over = OverIdle /\ disk = NoDisk
    /\ \E attr \in Tables : ds = DsIdle(attr)

NextSplit == Construct

SpecSplit == InitSplit /\ [][NextSplit]_vars

\* both processes enter the constructor for the same target_attr, no file yet
InitRace ==
    /\ call = CallIdle /\ train = TrainIdle /\ over = OverIdle /\ disk = NoDisk
    /\ \E attr \in [1..NumRaceImages -> [bias : {0, 1}, target : {0, 1}]],
          target_attr \in {"blonde", "makeup"} :
          ds = [DsIdle(attr) EXCEPT !.target_attr = target_attr,
                                    !.procs = [p \in Procs |-> [ProcIdle EXCEPT !.pc = "start"]]]

NextRace ==
    \/ Race_Begin
    \/ Race_IsDir
    \/ Race_LoadBase
    \/ Race_BuildBlonde
    \/ Race_Mkdir
    \/ Race_DumpBase
    \/ Race_Exists
    \/ Race_RandPerm
    \/ Race_DumpPerm
    \/ Race_LoadPerm
    \/ Race_Cut

SpecRace == InitRace /\ [][NextRace]_vars

\* ================================================================ claims

\* ---------------------------------------------------------------- C1
HasNaN(t) == \E i \in DOMAIN t : \E k \in DOMAIN t[i] : t[i][k] = "nan"

IsGCE == call.fn = "GeneralizedCELoss.forward"

\* C1 as stated: forward raises whenever the softmax probabilities or the
\* gathered target probabilities contain a NaN, and for every input (logits)
\* without a NaN it raises nothing and returns one loss value per sample
\* (stated here for batches of at least one sample only).
C1_AsStated ==
    (IsGCE /\ Len(call.in.logits) > 0) =>
        LET p == Softmax(call.in.logits)
        IN  /\ HasNaN(p) => call.out.exc = GCE_p
            /\ HasNaN(Gather(p, call.in.targets)) => Raised(call.out)
            /\ ~HasNaN(call.in.logits) =>
                   /\ ~Raised(call.out)
                   /\ Len(call.out.val) = Len(call.in.logits)

\* C1 amended: forward raises NameError('GCE_p') exactly when the batch is
\* empty or some softmax probability is NaN, which is when a row of logits
\* holds a NaN or +inf or nothing but -inf; NameError('GCE_Yg') is never
\* raised; in every other case it returns one loss value per sample.
C1_GCERaisesExactlyOnNaNProbabilities ==
    IsGCE =>
        LET logits == call.in.logits
            badRow(i) == \/ \E k \in DOMAIN logits[i] : logits[i][k] \in {"nan", "+inf"}
                         \/ \A k \in DOMAIN logits[i] : logits[i][k] = "-inf"
            bad == Len(logits) = 0 \/ \E i \in DOMAIN logits : badRow(i)
        IN  /\ HasNaN(Softmax(logits)) <=> \E i \in DOMAIN logits : badRow(i)
            /\ bad <=> call.out.exc = GCE_p
            /\ call.out.exc # GCE_Yg
            /\ ~bad => /\ ~Raised(call.out)
                       /\ Len(call.out.val) = Len(logits)

\* a batch of two samples, one target at a -inf logit, that returns two losses
C1_Witness ==
    /\ IsGCE
    /\ Len(call.in.logits) = 2
    /\ ~Raised(call.out)
    /\ Len(call.out.val) = 2
    /\ \E i \in 1..2 : call.in.logits[i][call.in.targets[i] + 1] = "-inf"

\* ---------------------------------------------------------------- C2
ExplicitRaises ==
    {GCE_p, GCE_Yg, RaiseAttributeError, ValueError_pth, ValueError_either}

IsOversampling == over.fn = "train_with_oversampling"

Constructed == ds.last.split # None

\* C2 as stated: dataset construction, model building and
\* train_with_oversampling never reach an explicit raise.
C2_AsStated ==
    /\ Constructed => ds.last.exc \notin ExplicitRaises
    /\ IsOversampling => over.exc \notin ExplicitRaises
    /\ (call.fn = "Build_ResNet") => call.out.exc \notin ExplicitRaises

\* C2 amended: besides the NaN check of the generalized cross-entropy loss,
\* BiasedCelebASplit.__init__ raises AttributeError exactly when target_attr is
\* neither 'blonde' nor 'makeup'; train_with_oversampling raises ValueError
\* exactly when oversample_pth is set and names no file, and otherwise, once
\* the pseudo label is there, exactly when loading the SimCLR checkpoint
\* fails; Build_ResNet never raises.
C2_ExplicitRaises ==
    /\ IsGCE => (call.out.exc \in ExplicitRaises => call.out.exc \in {GCE_p, GCE_Yg})
    /\ (call.fn = "Build_ResNet") => call.out.exc = None
    /\ Constructed =>
          /\ (ds.last.exc = RaiseAttributeError) <=> (ds.target_attr \notin {"blonde", "makeup"})
          /\ ds.last.exc \in ExplicitRaises => ds.last.exc = RaiseAttributeError
    /\ IsOversampling =>
          /\ (over.exc = ValueError_pth)
                <=> (over.args.oversample_pth # <<>> /\ ~Exists(disk, ManualPth))
          /\ (over.exc = ValueError_either)
                <=> (/\ ~over.ckpt_loads
                     /\ over.args.oversample_pth # <<>> => Exists(disk, ManualPth)
                     /\ over.made => \A q \in DOMAIN FullDisk \ {ManualPth, SubsetIndices} :
                                        Exists(disk, q) \/ (q = DebiasIdxFile
                                                            /\ over.args.data = "imagenet"))
          /\ over.exc \in ExplicitRaises => over.exc \in {ValueError_pth, ValueError_either}
          /\ over.exc # None => over.token = None

\* train_with_oversampling was given an oversample_pth that names no file
C2_Witness ==
    /\ IsOversampling
    /\ over.args.oversample_pth = <<ManualPth>> /\ ~Exists(disk, ManualPth)
    /\ over.exc = ValueError_pth

\* a split was asked for with a target_attr other than 'blonde' and 'makeup'
C2_WitnessAttr ==
    /\ Constructed /\ ds.target_attr = "smiling" /\ ds.last.exc = RaiseAttributeError

\* the checkpoint did not load although the pseudo label was there
C2_WitnessCkpt ==
    /\ IsOversampling /\ over.args.oversample_pth = <<>> /\ over.made
    /\ over.exc = ValueError_either

\* ---------------------------------------------------------------- C3
RECURSIVE SumOver(_, _, _)
\* the sum over the lambdas of lambda_list, from position k on, of the
\* score of sample i in that lambda's file
SumOver(lambda_list, k, i) ==
    IF k > Len(lambda_list) THEN 0
    ELSE disk[ScoreFileName(lambda_list[k])][i] + SumOver(lambda_list, k + 1, i)

Labelled == over.fn = "make_pseudo_label" /\ over.exc = None

\* the saved label of every sample is 1 exactly when the mean over lambda_list
\* of the sample's scores exceeds cutoff
LabelIsThresholdedMean ==
    /\ Exists(disk, WrongIndexFinal)
    /\ \A i \in 1..NumSamples :
          disk[WrongIndexFinal][i] =
              IF SumOver(over.args.lambda_list, 1, i)
                     > over.args.cutoff * Len(over.args.lambda_list)
              THEN 1 ELSE 0

\* C3 as stated: for every lambda_list, with or without 0., the saved pseudo
\* label thresholds the arithmetic mean of the listed lambdas' score files.
C3_AsStated == Labelled => LabelIsThresholdedMean

\* the number of positions of lambda_list holding ld
Occurrences(lambda_list, ld) ==
    Cardinality({k \in DOMAIN lambda_list : lambda_list[k] = ld})

\* what the code keeps of C3: the claim holds when 0. is listed exactly once
C3_HoldsWhenZeroListedOnce ==
    (Labelled /\ Occurrences(over.args.lambda_list, 0) = 1) => LabelIsThresholdedMean

\* ---------------------------------------------------------------- C4
IsScore == call.fn = "save_score_idx"

\* the deliveries of sample v in the run of the call
DeliveriesOf(v) == {k \in DOMAIN call.in.run : call.in.run[k].idx = v}

\* some class other than the label has a larger logit, or an equal one and a
\* smaller number
Mispredicted(logits, label) ==
    \E c \in 0..(NumClasses - 1) :
        \/ logits[c + 1] > logits[label + 1]
        \/ logits[c + 1] = logits[label + 1] /\ c < label

\* C4: after save_score_idx, every delivered sample v has wrong_idx[v] = 1
\* exactly when the arg-max prediction differs from its target label,
\* debias_idx[v] = 1 exactly when its target label differs from its bias label
\* and score_idx[v] = 1 minus the probability of its target label; the entries
\* of samples never delivered are 0; with finetune off the assertion fails
\* exactly when the count differs from the dataset size, so passing it means
\* no sample is missing.
C4_SaveScoreIdx ==
    IsScore =>
        LET in == call.in
            t == call.out.val
            n == Len(in.dataset.labels)
        IN  /\ \A v \in 1..n :
                  IF DeliveriesOf(v) = {}
                  THEN t.wrong_idx[v] = 0 /\ t.debias_idx[v] = 0 /\ t.score_idx[v] = 0
                  ELSE \A k \in DeliveriesOf(v) :
                         LET label == in.dataset.labels[v]
                         IN  /\ t.wrong_idx[v] = 1 <=> Mispredicted(in.run[k].logits, label)
                             /\ t.wrong_idx[v] \in {0, 1}
                             /\ t.debias_idx[v] = 1 <=> label # in.dataset.bias_labels[v]
                             /\ t.debias_idx[v] \in {0, 1}
                             /\ t.score_idx[v] + Probability(in.run[k].logits, label) = 100
            /\ t.total_num = Len(in.run)
            /\ (call.out.exc = AssertionError) <=> (~in.args.finetune /\ t.total_num # n)
            /\ (~in.args.finetune /\ call.out.exc # AssertionError) =>
                   \A v \in 1..n : DeliveriesOf(v) # {}
            /\ (call.out.exc = None) =>
                   /\ \A stem \in {"score_idx", "wrong_idx", "debias_idx"} :
                          Exists(disk, IdxPath(stem, in.args.data, in.epoch)[1])
                   /\ disk[IdxPath("score_idx", in.args.data, in.epoch)[1]] = t.score_idx
                   /\ disk[IdxPath("wrong_idx", in.args.data, in.epoch)[1]] = t.wrong_idx
                   /\ disk[IdxPath("debias_idx", in.args.data, in.epoch)[1]] = t.debias_idx

\* a complete run delivered out of order, one sample mispredicted and
\* bias-conflicting, the other neither
C4_Witness ==
    /\ IsScore /\ call.out.exc = None /\ ~call.in.args.finetune
    /\ Len(call.in.run) = NumSamples
    /\ call.in.run[1].idx = 2
    /\ call.out.val.wrong_idx[1] = 1 /\ call.out.val.wrong_idx[2] = 0
    /\ call.out.val.debias_idx[1] = 1 /\ call.out.val.debias_idx[2] = 0
    /\ call.out.val.score_idx[1] = 73 /\ call.out.val.score_idx[2] = 27

\* an incomplete run with finetune on leaves the entry of the missing sample 0
C4_WitnessMissing ==
    /\ IsScore /\ call.out.exc = None /\ call.in.args.finetune
    /\ Len(call.in.run) = 1 /\ call.in.run[1].idx = 2
    /\ call.out.val.score_idx[1] = 0 /\ call.out.val.score_idx[2] = 50

\* ---------------------------------------------------------------- C5
\* the base indices the train and valid splits of the run are cut from
Base ==
    IF ds.target_attr = "blonde" THEN disk[BlondeIndices] ELSE Arange(Len(ds.attr))

\* train and valid, whenever both have been built, share no image, together
\* hold every base index, and train has int(0.8*N) of the N entries
SplitsPartitionBase ==
    \A t \in ds.built["train"], v \in ds.built["valid"] :
        /\ Range(t) \cap Range(v) = {}
        /\ Range(t) \cup Range(v) = Range(Base)
        /\ Len(t) = NumTrain(Len(Base))
        /\ Len(t) + Len(v) = Len(Base)

\* every build of a split gave the same indices
SplitsStable == \A sp \in {"train", "valid"} : Cardinality(ds.built[sp]) <= 1

\* C5 as stated: for a fixed target_attr, over any sequence of constructions
\* the train and valid splits are disjoint, their union is the whole base
\* index set, and each split is the same every time it is rebuilt.
C5_AsStated ==
    (ds.target_attr \in {"blonde", "makeup"}) => (SplitsPartitionBase /\ SplitsStable)

\* what the code keeps of C5: each split is stable and is the persisted
\* permutation's first int(0.8*N) positions (train) or the others (valid) of
\* the base indices; the splits share no image when the base indices hold no
\* image twice.
C5_HoldsByPosition ==
    (ds.target_attr \in {"blonde", "makeup"}) =>
        /\ SplitsStable
        /\ \A sp \in {"train", "valid"} : \A x \in ds.built[sp] :
              /\ Exists(disk, PermFile(ds.target_attr))
              /\ LET perm == disk[PermFile(ds.target_attr)]
                     cut == IF sp = "train" THEN Take(perm, NumTrain(Len(perm)))
                            ELSE Drop(perm, NumTrain(Len(perm)))
                 IN  /\ perm \in RandPerm(Len(Base))
                     /\ x = [k \in DOMAIN cut |-> Base[cut[k] + 1]]
        /\ (ds.built["train"] # {} /\ Cardinality(Range(Base)) = Len(Base))
               => SplitsPartitionBase

\* the permutation file, once written, is never written again
C5_PermutationReloaded ==
    [][\A a \in TargetAttrs :
          Exists(disk, PermFile(a)) =>
              (Exists(disk', PermFile(a)) /\ disk'[PermFile(a)] = disk[PermFile(a)])]_vars

\* ---------------------------------------------------------------- C11
ERMTrained ==
    /\ train.solver = "ERM" /\ train.pc = "done"
    /\ train.args.oversample_pth = None

\* the files of checkpoint_dir with the given name
Named(name) == {q \in DOMAIN disk : q.dir = "checkpoint_dir" /\ q.name = name}

\* C11 as stated: after ERM training (oversample_pth unset) files named
\* 'score_idx.pth' and 'debias_idx.pth' written by save_score_idx exist, and
\* make_pseudo_label finds every file it reads.
C11_AsStated ==
    ERMTrained =>
        /\ Named("score_idx.pth") # {}
        /\ Named("debias_idx.pth") # {}
        /\ (over.fn = "make_pseudo_label") => over.exc = None

\* what the code does: training of ERM_epochs epochs leaves, for every epoch e
\* in 0..ERM_epochs-1, the files 'score_idx{e}.pth', 'wrong_idx{e}.pth' and
\* 'debias_idx{e}.pth', and no other file; make_pseudo_label then fails on
\* its first load.
C11_FilesTrainingLeaves ==
    ERMTrained =>
        /\ \A stem \in {"score_idx", "wrong_idx", "debias_idx"} :
              {q.n : q \in Named(stem \o "{epoch}.pth")} = 0..(train.args.epochs - 1)
        /\ \A q \in DOMAIN disk :
              \/ \E stem \in {"score_idx", "wrong_idx", "debias_idx"} :
                    q \in Named(stem \o "{epoch}.pth")
              \/ q = WrongIndexFinal
        /\ (over.fn = "make_pseudo_label") => over.exc = FileNotFoundError

\* ---------------------------------------------------------------- C6
IsForward == call.fn = "forward"

ExpectedKeys(in) ==
    (IF in.penultimate THEN {"penultimate"} ELSE {})
    \cup (IF in.simclr THEN {"simclr"} ELSE {})
    \cup (IF in.simsiam THEN {"simsiam_prj", "simsiam_pred"} ELSE {})
    \cup (IF in.vicReg THEN {"vicReg"} ELSE {})

\* C6 as stated: the keys of the returned dictionary are exactly those of the
\* flags set, and every call that sets at least one output flag passes the
\* assertion (each contrastive head can be requested on its own).
C6_AsStated ==
    IsForward =>
        LET in == call.in
        IN  (in.penultimate \/ in.simclr \/ in.simsiam \/ in.vicReg) =>
                /\ ~Raised(call.out)
                /\ Keys(call.out.val) = ExpectedKeys(in)

\* the part of C6 the code keeps: a call that returns, returns exactly the
\* keys of its flags
C6_KeysOfReturnedAux ==
    (IsForward /\ ~Raised(call.out)) => Keys(call.out.val) = ExpectedKeys(call.in)

\* ---------------------------------------------------------------- C8
IsInfoNCE == call.fn = "info_nce_loss"

\* whether row j is another view of row i's sample
OtherView(i, j, batch_size) == i # j /\ i % batch_size = j % batch_size

\* the rows j >= from, in increasing order, that are (positive) other views
\* of row i's sample, or (not positive) rows of another sample
RECURSIVE ColumnsFrom(_, _, _, _, _)
ColumnsFrom(i, from, n, batch_size, positive) ==
    IF from >= n THEN <<>>
    ELSE (IF (positive /\ OtherView(i, from, batch_size))
             \/ (~positive /\ i % batch_size # from % batch_size)
          THEN <<from>> ELSE <<>>)
         \o ColumnsFrom(i, from + 1, n, batch_size, positive)

\* row i of the logits the claim describes: the other views of i's sample,
\* then every row of another sample, each as a similarity over temperature
ExpectedLogitsRow(i, n, batch_size) ==
    LET cols == ColumnsFrom(i, 0, n, batch_size, TRUE)
                \o ColumnsFrom(i, 0, n, batch_size, FALSE)
    IN  [k \in DOMAIN cols |-> [sim |-> <<i, cols[k]>>, div |-> "temperature"]]

LogitsAsDescribed(in, out) ==
    LET n == in.n_views * in.batch_size
    IN  /\ ~Raised(out)
        /\ out.val.logits.rows = in.rows
        /\ out.val.logits.cols = in.rows - 1
        /\ out.val.labels = [k \in 1..in.rows |-> 0]
        /\ \A i \in 0..(in.rows - 1) :
              /\ SubSeq(out.val.logits.data, i * (in.rows - 1) + 1, (i + 1) * (in.rows - 1))
                     = ExpectedLogitsRow(i, in.rows, in.batch_size)
              /\ \A j \in 0..(in.rows - 2) :
                     At(out.val.logits, i, j).sim[2] # i

Events(op) == LET is(e) == e.op = op IN SelectSeq(train.log, is)

\* the positions of the log holding the event
Positions(ev) == {i \in DOMAIN train.log : train.log[i] = ev}

InLoop(e) == e.epoch < train.args.epochs

\* the networks whose optimizer a solver steps in every batch
SteppedNets(solver) == IF solver = "ERM" THEN {"classifier", "encoder"} ELSE {"encoder"}

\* every completed batch had one forward pass, then one loss, then one step
\* of each optimizer
EveryBatchStepped ==
    \A i \in 0..(train.n_iter - 1) :
        \E e \in 0..(train.args.epochs - 1), f, l \in DOMAIN train.log :
            /\ train.log[f] = Event("forward", e, "encoder", i)
            /\ train.log[l].op = "loss" /\ train.log[l].step = i
            /\ f < l
            /\ Cardinality({k \in DOMAIN train.log :
                   train.log[k].op = "forward" /\ train.log[k].step = i}) = 1
            /\ Cardinality({k \in DOMAIN train.log :
                   train.log[k].op = "loss" /\ train.log[k].step = i}) = 1
            /\ \A net \in SteppedNets(train.solver) :
                   /\ Cardinality(Positions(Event("optimizer.step", e, net, i))) = 1
                   /\ \A k \in Positions(Event("optimizer.step", e, net, i)) : l < k
            /\ Cardinality({k \in DOMAIN train.log :
                   train.log[k].op = "optimizer.step" /\ train.log[k].step = i})
                 = Cardinality(SteppedNets(train.solver))

\* C7 as stated: a completed run of two or more epochs of either solver has
\* saved a checkpoint and has validated inside the loop over the epochs.
C7_AsStated ==
    (train.pc = "done" /\ train.args.epochs >= 2) =>
        /\ \E i \in DOMAIN train.log :
               train.log[i].op = "checkpoint" /\ InLoop(train.log[i])
        /\ \E i \in DOMAIN train.log :
               train.log[i].op = "validation" /\ InLoop(train.log[i])

\* C7 amended: every batch gets a forward pass, a loss and an optimizer step.
\* ERMSolver.train validates once at the end of every epoch and saves one
\* checkpoint, after the last epoch.  contrastive_train never validates; it
\* saves a checkpoint at the end of every epoch whose number is a multiple of
\* save_every and once more after the last epoch.
C7_TrainLoops ==
    /\ EveryBatchStepped
    /\ (train.pc = "done") =>
          /\ train.args.epochs >= 1
          /\ train.n_iter = train.args.epochs * train.args.n_batches
    /\ (train.pc = "done" /\ train.solver = "ERM") =>
          /\ Events("validation") =
                 [k \in 1..train.args.epochs |->
                     Event("validation", k - 1, train.args.data,
                           k * train.args.n_batches + 1)]
          /\ Events("checkpoint") =
                 <<Event("checkpoint", train.args.epochs, "biased_ERM", train.args.epochs)>>
          /\ train.log[Len(train.log)].op = "checkpoint"
    /\ (train.pc = "done" /\ train.solver = "SimCLR") =>
          /\ Events("validation") = <<>>
          /\ \A e \in 0..(train.args.epochs - 1) :
                 Cardinality(Positions(Event("checkpoint", e, "biased_simclr", e + 1)))
                   = IF (e + 1) % train.args.save_every = 0 THEN 1 ELSE 0
          /\ Len(Events("checkpoint")) =
                 1 + Cardinality({e \in 1..train.args.epochs : e % train.args.save_every = 0})
          /\ train.log[Len(train.log)] =
                 Event("checkpoint", train.args.epochs, "biased_simclr", train.args.epochs)

\* a contrastive run of three epochs of two batches with save_every = 2 is over
C7_Witness ==
    /\ train.pc = "done" /\ train.solver = "SimCLR"
    /\ train.args.epochs = 3 /\ train.args.n_batches = 2 /\ train.args.save_every = 2
    /\ Len(Events("checkpoint")) = 2
    /\ train.n_iter = 6

\* ---------------------------------------------------------------- C9
StepTried == train.solver = "SimCLR" /\ train.step # NoStep

\* what a contrastive step with a defined loss looks like, for mode_CL
DefinedStep(mode_CL) ==
    /\ train.step.exc = None
    /\ train.step.objective = Objective(mode_CL)
    /\ train.step.objective \in
           {"criterion(info_nce_loss)", "simsiam_loss", "vicReg_loss"}
    /\ "penultimate" \in train.step.flags
    /\ Cardinality(train.step.flags \cap {"simclr", "simsiam", "vicReg"}) = 1
    /\ train.step.keys_read = HeadKeys(mode_CL) \cup {"penultimate"}
    /\ train.step.keys_read \subseteq
           {"penultimate", "simclr", "simsiam_prj", "simsiam_pred", "vicReg"}
    /\ train.step.loss = <<train.step.objective, "-", "lambda_offdiag * loss_offdiag">>
    /\ \E i \in DOMAIN train.log :
           train.log[i] = Event("loss", train.log[i].epoch, Objective(mode_CL),
                                train.n_iter - 1)

\* C9 as stated: every step of contrastive_train, for every value of mode_CL,
\* has a defined loss (stated here for loaders whose batches are all full).
C9_AsStated ==
    (StepTried /\ ~train.args.last_short) => DefinedStep(train.args.mode_CL)

\* C9 amended: for mode_CL among 'SimCLR', 'SimSiam' and 'vicReg' every step on
\* a full batch has a defined loss as described; for any other mode_CL no
\* branch runs and the first step fails with a NameError (aux is unbound)
\* before any encoder call, loss or optimizer step.
C9_ContrastiveStep ==
    StepTried =>
        /\ (train.args.mode_CL \in {"SimCLR", "SimSiam", "vicReg"}
            /\ ~train.args.last_short) => DefinedStep(train.args.mode_CL)
        /\ (train.args.mode_CL \notin {"SimCLR", "SimSiam", "vicReg"}) =>
              /\ train.step.exc = NameError
              /\ train.pc = "error" /\ train.exc = NameError
              /\ train.log = <<>>

\* a vicReg step has been taken
C9_Witness ==
    /\ StepTried
    /\ train.args.mode_CL = "vicReg"
    /\ train.step.exc = None
    /\ train.step.keys_read = {"vicReg", "penultimate"}
    /\ train.n_iter >= 1

\* ---------------------------------------------------------------- C10
IsOffDiagonal == call.fn = "off_diagonal"

\* C10: for a square n x n matrix, n >= 1, off_diagonal returns the n*(n-1)
\* entries x[i][j], i # j, in row-major order and no diagonal entry; a
\* non-square matrix fails the assertion; both copies agree on every input.
C10_OffDiagonal ==
    IsOffDiagonal =>
        LET x == call.in
            e == call.out.ERMSolver
            c == call.out.SimCLRSolver
            off(entry) == entry[1] # entry[2]
        IN  /\ e = c
            /\ x.rows # x.cols => e.exc = AssertionError
            /\ (x.rows = x.cols /\ x.rows >= 1) =>
                  /\ ~Raised(e)
                  /\ Len(e.val) = x.rows * (x.rows - 1)
                  /\ e.val = SelectSeq(x.data, off)
                  /\ \A k \in DOMAIN e.val : e.val[k][1] # e.val[k][2]

\* a 3 x 3 matrix, whose six off-diagonal entries are returned
C10_Witness ==
    /\ IsOffDiagonal
    /\ call.in.rows = 3 /\ call.in.cols = 3
    /\ ~Raised(call.out.SimCLRSolver)
    /\ call.out.SimCLRSolver.val =
          << <<0, 1>>, <<0, 2>>, <<1, 0>>, <<1, 2>>, <<2, 0>>, <<2, 1>> >>

\* ---------------------------------------------------------------- C12
ContrastiveDone == train.solver = "SimCLR" /\ train.pc = "done"

\* C12: a completed contrastive_train of simclr_epochs >= 1 epochs has saved
\* checkpoint (e, 'biased_simclr') at the end of epoch e for exactly the e in
\* 1..simclr_epochs that are multiples of save_every, then, as its last act,
\* checkpoint (simclr_epochs, 'biased_simclr'); that is the key
\* train_with_oversampling loads, so the lookup finds it.
C12_CheckpointKeys ==
    ContrastiveDone =>
        LET n == train.args.epochs
            final == Event("checkpoint", n, "biased_simclr", n)
            inloop(e) == Event("checkpoint", e - 1, "biased_simclr", e)
        IN  /\ n >= 1
            /\ \A e \in 1..n :
                  Cardinality(Positions(inloop(e)))
                      = IF e % train.args.save_every = 0 THEN 1 ELSE 0
            /\ \A i \in DOMAIN train.log :
                  train.log[i].op = "checkpoint" =>
                      \/ i = Len(train.log) /\ train.log[i] = final
                      \/ \E e \in 1..n : train.log[i] = inloop(e)
            /\ train.log[Len(train.log)] = final
            /\ \A i \in Positions(final), e \in 1..n :
                  \A k \in Positions(inloop(e)) : k < i
            /\ LoadedKey(n) = [step |-> final.step, token |-> final.key]
            /\ CheckpointLookup(train.log, LoadedKey(n))

\* a run of two epochs with save_every = 2 is over: it saved key 2 twice, at
\* the end of the last epoch and after the loop
C12_Witness ==
    /\ ContrastiveDone
    /\ train.args.epochs = 2 /\ train.args.save_every = 2
    /\ Len(Events("checkpoint")) = 2
    /\ SavedKeys(train.log) = {LoadedKey(2)}

\* ---------------------------------------------------------------- C13
\* how often the encoder's scheduler was stepped at the end of epoch e
SchedulerSteps(e) ==
    Cardinality({i \in DOMAIN train.log :
        train.log[i].op = "scheduler.step" /\ train.log[i].epoch = e})

CallsUnset ==
    /\ over' # over \/ disk' # disk
    /\ over'.fn = "train_with_oversampling" /\ over'.args.oversample_pth = <<>>

\* C14: a call with oversample_pth unset makes the pseudo label exactly when
\* 'wrong_index_final.pth' is absent; a file that exists is never written
\* again, by any call, whatever lambda_list and cutoff; and the weights of a
\* call that gets to linear evaluation are lambda_upweight exactly where the
\* file holds 1.
C14_LabelFileWrittenOnce ==
    [][/\ Exists(disk, WrongIndexFinal) =>
             /\ Exists(disk', WrongIndexFinal)
             /\ disk'[WrongIndexFinal] = disk[WrongIndexFinal]
       /\ CallsUnset =>
             /\ over'.made <=> ~Exists(disk, WrongIndexFinal)
             /\ ~over'.made => disk' = disk
             /\ (over'.exc = None) =>
                   /\ Exists(disk', WrongIndexFinal)
                   /\ DOMAIN over'.upweight = DOMAIN disk'[WrongIndexFinal]
                   /\ \A i \in DOMAIN over'.upweight :
                         (over'.upweight[i] = over'.args.lambda_upweight)
                             <=> (disk'[WrongIndexFinal][i] = 1)]_vars

\* a label of zeros written by an earlier call is reused by a call whose own
\* lambda_list and cutoff would label every sample 1
C14_Witness ==
    /\ over.fn = "train_with_oversampling" /\ over.args.oversample_pth = <<>>
    /\ ~over.made /\ over.exc = None
    /\ over.args.lambda_list = <<0>> /\ over.args.cutoff = 0
    /\ Exists(disk, ScoreFileName(0))
    /\ disk[WrongIndexFinal] = [i \in 1..NumSamples |-> 0]
    /\ over.upweight = [i \in 1..NumSamples |-> 1]

\* ---------------------------------------------------------------- C15
\* the step is a call of train_with_oversampling with oversample_pth set
CallsManual ==
    /\ over' # over \/ disk' # disk
    /\ over'.fn = "train_with_oversampling" /\ over'.args.oversample_pth = <<ManualPth>>

\* C15: a call with oversample_pth set never makes the pseudo label and
\* leaves every file as it is; it raises the ValueError of line 54 exactly
\* when the path names no file, whether or not the checkpoint would load, and
\* then hands nothing to linear evaluation; when the file exists, what the
\* call does depends on that file alone: the weights are lambda_upweight
\* exactly where it holds 1.
C15_ManualLabel ==
    [][CallsManual =>
          /\ ~over'.made /\ over'.pseudo_label = <<>>
          /\ disk' = disk
          /\ (over'.exc = ValueError_pth) <=> ~Exists(disk, ManualPth)
          /\ ~Exists(disk, ManualPth) => (over'.token = None /\ over'.upweight = <<>>)
          /\ Exists(disk, ManualPth) =>
                /\ (over'.exc = ValueError_either) <=> ~over'.ckpt_loads
                /\ (over'.exc = FileNotFoundError) <=>
                       (/\ over'.ckpt_loads /\ over'.args.finetune
                        /\ ~Exists(disk, SubsetIndices))
                /\ over'.exc \in {None, ValueError_either, FileNotFoundError}
                /\ (over'.exc = None) =>
                      /\ DOMAIN over'.upweight = DOMAIN disk[ManualPth]
                      /\ \A i \in DOMAIN over'.upweight :
                            (over'.upweight[i] = over'.args.lambda_upweight)
                                <=> (disk[ManualPth][i] = 1)]_vars

\* a manual label is used although checkpoint_dir holds a different
\* 'wrong_index_final.pth'
C15_Witness ==
    /\ over.fn = "train_with_oversampling" /\ over.args.oversample_pth = <<ManualPth>>
    /\ over.exc = None /\ ~over.args.finetune
    /\ Exists(disk, WrongIndexFinal)
    /\ disk[WrongIndexFinal] = [i \in 1..NumSamples |-> 0]
    /\ over.upweight = [i \in 1..NumSamples |-> IF i = 1 THEN 2 ELSE 1]

\* ---------------------------------------------------------------- C16
\* the pseudo-label file of the call is on disk after the call (no call
\* deletes a file, so a file missing now was missing throughout)
LabelFileThere == Exists(disk, LabelPath(over.args))

\* C16 as stated, for oversample_pth unset: if the checkpoint load fails or
\* the pseudo-label file is missing, the call raises the ValueError of line 77
\* and runs no linear evaluation.
C16_AsStated ==
    (IsOversampling /\ over.args.oversample_pth = <<>>) =>
        ((~over.ckpt_loads \/ ~LabelFileThere) =>
            (over.exc = ValueError_either /\ over.token = None))

\* C16 amended: linear evaluation is started only when the checkpoint has
\* loaded and the pseudo-label file exists, and by no call that raises.  The
\* ValueError of line 77 is raised exactly when the checkpoint load is
\* reached and fails; the pseudo-label file exists whenever it is raised.  A
\* missing pseudo-label file shows earlier and differently: as the
\* ValueError of line 54 when oversample_pth is set, as the FileNotFoundError
\* of make_pseudo_label when it is unset.
C16_LinearEvaluationGuard ==
    IsOversampling =>
        /\ (over.token # None) =>
              /\ over.ckpt_loads /\ LabelFileThere /\ over.exc = None
              /\ over.token = IF over.args.finetune THEN "debiased_finetune"
                              ELSE "debiased_linear"
        /\ (over.exc # None) => (over.token = None /\ over.upweight = <<>>)
        /\ (over.exc = ValueError_either) => (~over.ckpt_loads /\ LabelFileThere)
        /\ (~over.ckpt_loads /\ over.exc \notin {ValueError_pth, FileNotFoundError})
              => over.exc = ValueError_either
        /\ ~LabelFileThere =>
              /\ over.exc \in {ValueError_pth, FileNotFoundError}
              /\ (over.exc = ValueError_pth) <=> (over.args.oversample_pth # <<>>)

\* the pseudo label was on disk and the checkpoint did not load
C16_Witness ==
    /\ IsOversampling /\ over.args.oversample_pth = <<>> /\ ~over.made
    /\ LabelFileThere /\ ~over.ckpt_loads
    /\ over.exc = ValueError_either /\ over.token = None

\* the pseudo label was missing and could not be made: no ValueError
C16_WitnessMissing ==
    /\ IsOversampling /\ over.args.oversample_pth = <<>> /\ over.made
    /\ ~LabelFileThere /\ over.exc = FileNotFoundError

\* ---------------------------------------------------------------- C17
IsERM == train.solver = "ERM"

\* the positions of the log holding an event of the given op and epoch
At_(op, e) == {i \in DOMAIN train.log : train.log[i].op = op /\ train.log[i].epoch = e}

\* in every epoch: the optimizer steps, then one validation, then
\* save_score_idx exactly when oversample_pth is unset; one checkpoint, last,
\* under the key evaluate loads
ERMOrder ==
    LET n == train.args.epochs
    IN  /\ \A e \in 0..(n - 1) :
              /\ Cardinality(At_("optimizer.step", e)) = 2 * train.args.n_batches
              /\ Cardinality(At_("validation", e)) = 1
              /\ Cardinality(At_("save_score_idx", e))
                    = IF train.args.oversample_pth = None THEN 1 ELSE 0
              /\ \A v \in At_("validation", e) :
                    /\ \A o \in At_("optimizer.step", e) : o < v
                    /\ \A sc \in At_("save_score_idx", e) : v < sc
              /\ \A sc \in At_("save_score_idx", e), o \in At_("optimizer.step", e + 1) :
                    sc < o
        /\ Events("checkpoint") = <<Event("checkpoint", n, "biased_ERM", n)>>
        /\ train.log[Len(train.log)].op = "checkpoint"
        /\ SavedKeys(train.log) = {EvaluateKey(n)}

\* C17 as stated: a run of one or more epochs keeps the order and saves its
\* one checkpoint under (ERM_epochs, 'biased_ERM'); a run of no epoch still
\* ends by saving a checkpoint.
C17_AsStated ==
    IsERM =>
        /\ (train.pc = "done") => ERMOrder
        /\ (train.args.epochs = 0) => train.pc # "error"

\* what the code keeps of C17: every completed run has one or more epochs
\* and keeps the order; a run of no epoch fails with a NameError on
\* epoch_counter before it saves anything.
C17_HoldsFromOneEpoch ==
    IsERM =>
        /\ (train.pc = "done") => (train.args.epochs >= 1 /\ ERMOrder)
        /\ (train.args.epochs = 0 /\ train.pc \in {"done", "error"}) =>
              /\ train.pc = "error" /\ train.exc = NameError
              /\ train.log = <<>>

\* ---------------------------------------------------------------- C18
IsPrecisionRecall == call.fn = "pseudo_label_precision_recall"

\* the samples with pseudo label 1
PseudoLabelled == {i \in DOMAIN call.in.wrong_label : call.in.wrong_label[i] = 1}

\* the samples whose stored indicator target != bias has the given value
Stored(b) == {i \in DOMAIN call.in.debias_label : call.in.debias_label[i] = b}

\* 0 / 0
IsNaN(q) == q.num = 0 /\ q.den = 0

InUnitInterval(q) == q.den > 0 /\ 0 <= q.num /\ q.num <= q.den

\* C18 as stated: for every dataset the two values are taken against the
\* stored indicator target != bias, and both lie between 0 and 1 for every
\* input.
C18_AsStated ==
    IsPrecisionRecall =>
        LET r == call.out.val
            hit == Cardinality(PseudoLabelled \cap Stored(1))
        IN  /\ r.spur_precision = TrueDivide(hit, Cardinality(PseudoLabelled))
            /\ r.spur_recall = TrueDivide(hit, Cardinality(Stored(1)))
            /\ InUnitInterval(r.spur_precision)
            /\ InUnitInterval(r.spur_recall)

\* C18 as the code has it: for data 'celebA' the indicator is inverted first,
\* so the values are taken against the samples stored with target = bias;
\* each value lies between 0 and 1 when its denominator counts a sample and
\* is nan when it counts none.
C18_PrecisionRecall ==
    IsPrecisionRecall =>
        LET r == call.out.val
            conflicting == Stored(IF call.in.data = "celebA" THEN 0 ELSE 1)
            hit == Cardinality(PseudoLabelled \cap conflicting)
        IN  /\ r.spur_precision = TrueDivide(hit, Cardinality(PseudoLabelled))
            /\ r.spur_recall = TrueDivide(hit, Cardinality(conflicting))
            /\ IF PseudoLabelled = {} THEN IsNaN(r.spur_precision)
               ELSE InUnitInterval(r.spur_precision)
            /\ IF conflicting = {} THEN IsNaN(r.spur_recall)
               ELSE InUnitInterval(r.spur_recall)

\* celebA, a labelled sample, and both values of the stored indicator
C18_Witness ==
    /\ IsPrecisionRecall /\ call.in.data = "celebA"
    /\ PseudoLabelled # {} /\ Stored(0) # {} /\ Stored(1) # {}
    /\ call.out.val.spur_recall.num > 0

\* no pseudo-labelled sample: the precision is nan
C18_WitnessEmpty ==
    /\ IsPrecisionRecall /\ PseudoLabelled = {} /\ call.in.wrong_label # <<>>
    /\ IsNaN(call.out.val.spur_precision)

\* ---------------------------------------------------------------- C19
BlondeBuilt == ds.target_attr = "blonde" /\ Exists(disk, BlondeIndices)

\* the images with bias = 0 and target = 0
Selects == {v \in 0..(Len(ds.attr) - 1) : ds.attr[v + 1].bias = 0 /\ ds.attr[v + 1].target = 0}

\* the positions of the persisted base indices holding one of the images
PositionsOf(images) == {k \in DOMAIN disk[BlondeIndices] : disk[BlondeIndices][k] \in images}

\* the base keeps every other image and at most 2000 (MaxSelects) of Selects
KeepsOthers ==
    /\ \A v \in 0..(Len(ds.attr) - 1) : v \notin Selects => v \in Range(disk[BlondeIndices])
    /\ Cardinality(PositionsOf(Selects)) <= MaxSelects
    /\ Range(disk[BlondeIndices]) \subseteq 0..(Len(ds.attr) - 1)

NoIndexTwice == Cardinality(Range(disk[BlondeIndices])) = Len(disk[BlondeIndices])

\* the test split uses all samples
TestUsesAll == \A x \in ds.built["test"] : x = Arange(NumTestImages)

\* C19 as stated: for 'blonde' the base index set of train and valid keeps
\* every sample that is not (bias = 0 and target = 0) and at most 2000 of the
\* others, with no index occurring twice; the test split uses all samples.
C19_AsStated ==
    /\ BlondeBuilt => (KeepsOthers /\ NoIndexTwice)
    /\ (ds.target_attr = "blonde") => TestUsesAll

\* what the code keeps of C19: everything but the absence of repeats
C19_HoldsUpToRepeats ==
    /\ BlondeBuilt => KeepsOthers
    /\ (ds.target_attr = "blonde") => TestUsesAll
    /\ (ds.target_attr = "blonde" /\ ds.built["train"] \cup ds.built["valid"] # {})
          => BlondeBuilt

\* the base indices are built only when absent and reloaded unchanged: once
\* written the file keeps its content, and only a train or valid construction
\* for 'blonde' writes it
C19_BaseReloaded ==
    [][/\ Exists(disk, BlondeIndices) =>
             (Exists(disk', BlondeIndices) /\ disk'[BlondeIndices] = disk[BlondeIndices])
       /\ (~Exists(disk, BlondeIndices) /\ Exists(disk', BlondeIndices)) =>
             (ds'.target_attr = "blonde" /\ ds'.last.split \in {"train", "valid"})]_vars

\* ---------------------------------------------------------------- C20
BothDone == \A p \in Procs : ds.procs[p].pc = "done"

\* the two splits share no image and together hold the persisted base indices
RaceSplitsPartition ==
    LET base == IF ds.target_attr = "blonde" THEN disk[BlondeIndices]
                ELSE Arange(Len(ds.attr))
    IN  /\ Range(ds.procs["train"].indices) \cap Range(ds.procs["valid"].indices) = {}
        /\ Range(ds.procs["train"].indices) \cup Range(ds.procs["valid"].indices)
              = Range(base)

\* both processes used the persisted permutation and base indices
UsedPersisted ==
    /\ \A p \in Procs : ds.procs[p].rand_indices = disk[PermFile(ds.target_attr)]
    /\ (ds.target_attr = "blonde") =>
          \A p \in Procs : ds.procs[p].base = disk[BlondeIndices]

\* C20 as stated: two processes that construct the train and the valid split
\* for the same target_attr at the same time, with neither file there yet,
\* both complete, end up using the same persisted permutation and base
\* indices, and their splits are disjoint and together cover the base.
C20_AsStated ==
    /\ \A p \in Procs : ds.procs[p].pc # "failed"
    /\ BothDone => (UsedPersisted /\ RaceSplitsPartition)

\* what the code keeps of C20: the splits are a partition of the base when
\* both processes did use the persisted files and the base holds no image
\* twice
C20_HoldsWhenFilesShared ==
    (BothDone /\ UsedPersisted
        /\ Cardinality(Range(ds.procs["train"].base)) = Len(ds.procs["train"].base))
      => RaceSplitsPartition

\* ---------------------------------------------------------------- C21
\* ERMSolver.__init__ rebuilt the train loader with sampling weights
InitUpweighted == call.fn = "ERMSolver.__init__" /\ call.out.val # <<>>

\* train_with_oversampling got as far as the sampling weights
OverUpweighted == IsOversampling /\ over.exc = None

\* weight lambda_upweight for pseudo label 1 and weight 1 for pseudo label 0;
\* in finetune mode weight 0 for every sample outside the subset
WeightsAsStated(upweight, wrong_label, args, indices) ==
    \A i \in DOMAIN upweight :
        IF args.finetune /\ i \notin indices THEN upweight[i] = 0
        ELSE upweight[i] = IF wrong_label[i] = 1 THEN args.lambda_upweight ELSE 1

\* the weights in the order the code assigns them: the zeros of finetune mode
\* first, then lambda_upweight over every sample with pseudo label 1
WeightsAsAssigned(upweight, wrong_label, args, indices) ==
    \A i \in DOMAIN upweight :
        IF wrong_label[i] = 1 THEN upweight[i] = args.lambda_upweight
        ELSE upweight[i] = IF args.finetune /\ i \notin indices THEN 0 ELSE 1

\* C21 as stated: wherever upweighting is applied, sample i has sampling
\* weight lambda_upweight when its pseudo label is 1 and 1 when it is 0, and
\* in finetune mode every sample outside the finetune subset has weight 0,
\* whatever its pseudo label.
C21_AsStated ==
    /\ InitUpweighted =>
          WeightsAsStated(call.out.val[1], call.in.wrong_label, call.in.args,
                          call.in.indices)
    /\ OverUpweighted =>
          WeightsAsStated(over.upweight, disk[LabelPath(over.args)], over.args,
                          IF over.args.finetune THEN disk[SubsetIndices] ELSE {})

\* what the code keeps of C21: the weights are as stated for every sample of
\* the subset and outside finetune mode; a sample outside the subset has
\* weight 0 only when its pseudo label is 0, and lambda_upweight otherwise.
\* ERMSolver.__init__ applies them exactly when lambda_upweight != 1 and
\* oversample_pth is set.
C21_WeightsAsAssigned ==
    /\ (call.fn = "ERMSolver.__init__") =>
          /\ (call.out.val # <<>>)
                <=> (call.in.args.lambda_upweight # 1 /\ call.in.args.oversample_pth # <<>>)
          /\ InitUpweighted =>
                WeightsAsAssigned(call.out.val[1], call.in.wrong_label, call.in.args,
                                  call.in.indices)
    /\ OverUpweighted =>
          WeightsAsAssigned(over.upweight, disk[LabelPath(over.args)], over.args,
                            IF over.args.finetune THEN disk[SubsetIndices] ELSE {})

====
